---- MODULE Spec2Model ----
(***************************************************************************)
(* LinkedIn Easy Apply automation: the control surface (web_app.py), the   *)
(* run loop (main.py), the wizard navigator (applier.py), the answer       *)
(* resolver (cv_reader.py, work_authorization.py, experience_map.py) and   *)
(* the option picker (gemini_cv.py).                                       *)
(*                                                                         *)
(* Everything runs on one asyncio event loop.  A task is modelled by the   *)
(* await it is suspended in (its pc); one action is the code that runs     *)
(* from the return of that await to the next await, so the control         *)
(* surface can interleave exactly where the code yields.                   *)
(***************************************************************************)
EXTENDS Integers, Sequences, FiniteSets, TLC

\* ------------------------------------------------------------------ bounds
MaxRuns == 2        \* successful start() calls over the life of the process
MaxRounds == 2      \* rounds of the while-loop of one run
MaxJobs == 2        \* job cards get_job_list_count may report
MaxOptions == 2     \* <option> elements of a dropdown

\* ------------------------------------------------------- program constants
WizardMaxSteps == 12    \* for _ in range(12)

\* Optional[str]: None, or a value
None == <<>>
Some(s) == <<s>>

VARIABLES
    running,          \* _run_state["running"]
    applied_count,    \* _run_state["applied_count"]
    error,            \* _run_state["error"]: "None" or a message
    stop_event,       \* _stop_event: 0 (None) or the run whose Event it is
    eventSet,         \* eventSet[t]: is_set() of the Event made for run t
    overrides_exists, \* OVERRIDES_FILE.exists()
    env,              \* has RESUME_PATH/CV_PATH, has EASY_APPLY_EMAIL
    nTasks,           \* run tasks created so far
    task,             \* task[t]: the coroutine frame of main() for run t
    cbPending,        \* runs whose done callback is scheduled and has not run
    pinned,           \* run whose first step is next in the loop's ready queue
    opt_pc,           \* the dropdown filler: "dom", "collected", "skipped",
                      \* "matched", "nomatch", "picked"
    dom_options,      \* text_content of the <option> elements of the dropdown
    option_texts,     \* option_texts of _fill_additional_questions
    opt_text,         \* `text` of get_answer_from_options, as an Optional
    api_choice,       \* what get_answer_from_options returned, as an Optional
    provider_calls,   \* the provider calls get_answer_from_options made, in order
    select_answer,    \* `answer` of the dropdown loop, as an Optional
    res_pc,           \* the resolver: "asked", in a provider function, "answered"
    label_str,        \* the label get_answer_for_question is called with
    environ,          \* os.environ: the settings, each None (not set) or a value
    cv_file,          \* the text of the PDF at CV_PATH, None if there is none
    answer,           \* what get_answer_for_question returned, as an Optional
    _cv_text_cache,   \* cv_reader._cv_text_cache, as an Optional
    PdfReader,        \* FALSE when pypdf could not be imported (PdfReader is None)
    cv_disk,          \* the file at CV_PATH: "missing", "unreadable", or its text as an Optional
    cv_calls,         \* the calls of load_cv_text so far: what each returned, whether it read the PDF
    fill_pc,          \* the fill pass: "step", the loop it is before, "done"
    form,             \* the controls of the wizard step shown
    form_before,      \* the controls as they were when the pass began
    easy_form         \* the frame of fill_easy_apply_form: position, step, filled_any, result

runVars == <<running, applied_count, error, stop_event, eventSet,
             overrides_exists, env, nTasks, task, cbPending, pinned>>

optVars == <<opt_pc, dom_options, option_texts, opt_text, api_choice, provider_calls,
             select_answer>>

resVars == <<res_pc, label_str, environ, cv_file, answer>>

cvVars == <<_cv_text_cache, PdfReader, cv_disk, cv_calls>>

fillVars == <<fill_pc, form, form_before>>

stepVars == <<easy_form>>

Runs == 1..MaxRuns

\* The frame of main(): its locals, and what the run has done (history).
NoTask ==
    [pc |-> "none", round_no |-> 0, count |-> 0, i |-> 0, applied_total |-> 0,
     applied |-> FALSE, step |-> 0, exit |-> "none", ret |-> -1,
     selects |-> 0, jobEvent |-> "none", closes |-> 0, countAtSelect |-> 0,
     lateClick |-> FALSE, submitted |-> FALSE,
     navFailed |-> FALSE, limitHit |-> FALSE, countAtLimit |-> 0,
     passes |-> 0, clicks |-> 0, successes |-> 0]

Active(t) == task[t].pc \notin {"none", "done"}

\* stop_event.is_set() as main() of run t sees it (main.py:58,107,111)
StopRequested(t) == eventSet[t]

\* ------------------------------------------------ continuations of main()

\* leave the loops towards `finally: close_context` (main.py:122)
Leave(r, how) == [r EXCEPT !.pc = "closing", !.exit = how]

\* main.py:75: the call select_job_at_index(page, i) is made
CallSelect(r, idx) ==
    [r EXCEPT !.pc = "select", !.i = idx, !.selects = @ + 1,
              !.jobEvent = "none", !.closes = 0, !.lateClick = FALSE,
              !.submitted = FALSE, !.applied = FALSE, !.step = 0,
              !.countAtSelect = applied_count, !.passes = 0, !.clicks = 0]

\* main.py:110-114: after the for-loop
AfterFor(r, stop) ==
    IF stop THEN Leave(r, "ret0")
    ELSE [r EXCEPT !.pc = "scrollmore", !.jobEvent = "none", !.closes = 0,
                   !.lateClick = FALSE, !.submitted = FALSE, !.applied = FALSE,
                   !.step = 0, !.countAtSelect = applied_count,
                   !.passes = 0, !.clicks = 0]

\* variant: the for-loop steps over an index
SkipNextJob(r, stop) ==
    IF r.i + 2 < r.count THEN CallSelect(r, r.i + 2) ELSE AfterFor(r, stop)

\* main.py:73: the for-loop takes its next index, or ends
NextJob(r, stop) ==
    IF r.i + 1 < r.count THEN CallSelect(r, r.i + 1) ELSE AfterFor(r, stop)

\* main.py:76,83: `continue` skips lines 105-108
ContinueJob(r, stop) == NextJob(r, stop)

\* main.py:107-108: the stop check between jobs
CheckStopBetweenJobs(r, stop) ==
    IF stop THEN AfterFor(r, stop) ELSE NextJob(r, stop)

\* main.py:57-62: top of the while-loop
LoopTop(r, stop) ==
    IF stop THEN Leave(r, "ret0")
    ELSE [r EXCEPT !.round_no = @ + 1, !.pc = "count"]

LoopTopEnabled(r, stop) == stop \/ r.round_no < MaxRounds

\* main.py:63-73: a job count is known
GotCount(r, n) == CallSelect([r EXCEPT !.count = n], 0)

\* fill_contact_and_click_suivant returns to main.py:89-90
WizardReturns(r, result) ==
    [r EXCEPT !.pc = "limit3", !.applied = result,
              !.successes = IF result THEN @ + 1 ELSE @]

\* variant: the exception of one job escapes the per-job handler
JobRaisesFatal(r) == [Leave(r, "fatal") EXCEPT !.jobEvent = "exception"]

\* an exception leaves the try of main.py:74 for the handler at 102-104
JobRaises(r) == [r EXCEPT !.pc = "closeExc", !.jobEvent = "exception"]

\* a task step that touches only the frame
Frame(t, r) ==
    /\ task' = [task EXCEPT ![t] = r]
    /\ UNCHANGED <<running, applied_count, error, stop_event, eventSet,
                   overrides_exists, env, nTasks, cbPending, pinned>>

\* the loop is free to run any ready handler
Unpinned == pinned = 0

\* ------------------------------------------------------------ main(): run t

\* main.py:38-45: the first step of the task, up to create_persistent_context
main_start(t) ==
    /\ task[t].pc = "created"
    /\ pinned \in {0, t}
    /\ cbPending \cap (1..(t - 1)) = {}
    /\ running' = TRUE
    /\ applied_count' = 0
    /\ error' = "None"
    /\ task' = [task EXCEPT ![t].pc = "context"]
    /\ pinned' = 0
    /\ UNCHANGED <<stop_event, eventSet, overrides_exists, env, nTasks, cbPending>>
    /\ UNCHANGED <<optVars, resVars, cvVars, fillVars, stepVars>>

\* main.py:45-47: the browser context is created, or that raises (outside
\* the inner try, so the exception reaches the handler at main.py:127)
create_context(t) ==
    /\ task[t].pc = "context" /\ Unpinned
    /\ \E ok \in BOOLEAN :
         Frame(t, IF ok THEN [task[t] EXCEPT !.pc = "navigate"]
                        ELSE Leave(task[t], "fatal"))
    /\ UNCHANGED <<optVars, resVars, cvVars, fillVars, stepVars>>

\* main.py:50-62 with scraper.py:20-32
navigate(t) ==
    /\ task[t].pc = "navigate" /\ Unpinned
    /\ \E ok \in BOOLEAN :
         IF ok
         THEN /\ LoopTopEnabled(task[t], StopRequested(t))
              /\ Frame(t, LoopTop([task[t] EXCEPT !.applied_total = 0, !.round_no = 0],
                                  StopRequested(t)))
         ELSE Frame(t, Leave([task[t] EXCEPT !.navFailed = TRUE], "ret1"))
    /\ UNCHANGED <<optVars, resVars, cvVars, fillVars, stepVars>>

\* main.py:62-63,72-75 with scraper.py:63-81
job_count(t) ==
    /\ task[t].pc = "count" /\ Unpinned
    /\ \E n \in 0..MaxJobs :
         Frame(t, IF n = 0 THEN [task[t] EXCEPT !.pc = "rescroll", !.count = 0]
                           ELSE GotCount(task[t], n))
    /\ UNCHANGED <<optVars, resVars, cvVars, fillVars, stepVars>>

\* main.py:64-69
job_count_again(t) ==
    /\ task[t].pc = "rescroll" /\ Unpinned
    /\ \E n \in 0..MaxJobs :
         Frame(t, IF n = 0 THEN [task[t] EXCEPT !.pc = "sleep15"]
                           ELSE GotCount(task[t], n))
    /\ UNCHANGED <<optVars, resVars, cvVars, fillVars, stepVars>>

\* main.py:69-70 then 57-62
sleep_no_jobs(t) ==
    /\ task[t].pc = "sleep15" /\ Unpinned
    /\ LoopTopEnabled(task[t], StopRequested(t))
    /\ Frame(t, LoopTop(task[t], StopRequested(t)))
    /\ UNCHANGED <<optVars, resVars, cvVars, fillVars, stepVars>>

\* main.py:75-77: select_job_at_index returned (it catches its own exceptions)
select_job(t) ==
    /\ task[t].pc = "select" /\ Unpinned
    /\ \E ok \in BOOLEAN :
         Frame(t, IF ok THEN [task[t] EXCEPT !.pc = "limit1"]
                        ELSE ContinueJob(task[t], StopRequested(t)))
    /\ UNCHANGED <<optVars, resVars, cvVars, fillVars, stepVars>>

\* the daily-limit phrase was seen at a check point (main.py:77,84,90)
LimitSeen(r) == [r EXCEPT !.limitHit = TRUE, !.countAtLimit = applied_count]

\* main.py:77-81
limit_check_1(t) ==
    /\ task[t].pc = "limit1" /\ Unpinned
    /\ \E lim \in BOOLEAN :
         Frame(t, IF lim THEN Leave(LimitSeen(task[t]), "ret0")
                         ELSE [task[t] EXCEPT !.pc = "click"])
    /\ UNCHANGED <<optVars, resVars, cvVars, fillVars, stepVars>>

\* main.py:81-84: click_easy_apply_selected returned
click_easy_apply(t) ==
    /\ task[t].pc = "click" /\ Unpinned
    /\ \E ok \in BOOLEAN :
         Frame(t, [task[t] EXCEPT !.pc = IF ok THEN "limit2" ELSE "closeA"])
    /\ UNCHANGED <<optVars, resVars, cvVars, fillVars, stepVars>>

\* main.py:82-83: close_easy_apply_modal returned, `continue`
close_after_no_button(t) ==
    /\ task[t].pc = "closeA" /\ Unpinned
    /\ Frame(t, ContinueJob([task[t] EXCEPT !.closes = @ + 1], StopRequested(t)))
    /\ UNCHANGED <<optVars, resVars, cvVars, fillVars, stepVars>>

\* main.py:84-89
limit_check_2(t) ==
    /\ task[t].pc = "limit2" /\ Unpinned
    /\ \E lim \in BOOLEAN :
         Frame(t, IF lim THEN [LimitSeen(task[t]) EXCEPT !.pc = "closeLimit"]
                         ELSE [task[t] EXCEPT !.pc = "wizModal"])
    /\ UNCHANGED <<optVars, resVars, cvVars, fillVars, stepVars>>

\* main.py:86-88, 92-94: modal closed, popup shown, return 0
close_on_limit(t) ==
    /\ task[t].pc = "closeLimit" /\ Unpinned
    /\ Frame(t, Leave([task[t] EXCEPT !.closes = @ + 1], "ret0"))
    /\ UNCHANGED <<optVars, resVars, cvVars, fillVars, stepVars>>

\* ------------------------------------- fill_contact_and_click_suivant

\* an advance affordance (submit, verify, next) is clicked
Clicked(r) ==
    [r EXCEPT !.lateClick = @ \/ r.jobEvent = "validation", !.clicks = @ + 1]

\* applier.py:877-888: wait for the modal
wiz_modal(t) ==
    /\ task[t].pc = "wizModal" /\ Unpinned
    /\ \E visible \in BOOLEAN :
         Frame(t, IF visible THEN [task[t] EXCEPT !.pc = "wizSubmit0"]
                             ELSE WizardReturns(task[t], FALSE))
    /\ UNCHANGED <<optVars, resVars, cvVars, fillVars, stepVars>>

\* applier.py:888-894 with 926-954: one-step apply
wiz_submit_first(t) ==
    /\ task[t].pc = "wizSubmit0" /\ Unpinned
    /\ \E clicked \in BOOLEAN :
         Frame(t, IF clicked
                  THEN WizardReturns([Clicked(task[t]) EXCEPT !.submitted = TRUE], TRUE)
                  ELSE [task[t] EXCEPT !.pc = "wizNext0"])
    /\ UNCHANGED <<optVars, resVars, cvVars, fillVars, stepVars>>

\* applier.py:892-902: Suivant on the contact step
wiz_next_first(t) ==
    /\ task[t].pc = "wizNext0" /\ Unpinned
    /\ \E ok \in BOOLEAN :
         Frame(t, IF ok THEN [Clicked(task[t]) EXCEPT !.pc = "wizFill", !.step = 0]
                        ELSE WizardReturns(task[t], FALSE))
    /\ UNCHANGED <<optVars, resVars, cvVars, fillVars, stepVars>>

\* variant: the wizard goes on after a validation error
IgnoreValidationError(r) == [r EXCEPT !.pc = "wizAdvance", !.jobEvent = "validation"]

\* applier.py:906-908: validation errors are visible after the fill pass
OnValidationError(r) == [r EXCEPT !.pc = "wizClose", !.jobEvent = "validation"]

\* variant: the wizard's for-loop makes one pass more
NextPassOneMore(r) ==
    IF r.step + 1 <= WizardMaxSteps
    THEN [r EXCEPT !.pc = "wizFill", !.step = @ + 1]
    ELSE WizardReturns(r, TRUE)

\* applier.py:901,916,920: the for-loop takes its next pass or is exhausted (923)
NextPass(r) ==
    IF r.step + 1 < WizardMaxSteps
    THEN [r EXCEPT !.pc = "wizFill", !.step = @ + 1]
    ELSE WizardReturns(r, TRUE)

\* applier.py:910-922: submit, else verify, else next, else break; a click
\* or a visibility query can raise
Advance(r, what) ==
    CASE what = "submit" -> WizardReturns([Clicked(r) EXCEPT !.submitted = TRUE], TRUE)
      [] what = "verify" -> NextPass(Clicked(r))
      [] what = "next"   -> NextPass(Clicked(r))
      [] what = "none"   -> WizardReturns(r, TRUE)
      [] OTHER           -> JobRaises(r)

\* applier.py:902-906 with 957-969: one fill pass and the look for validation
\* errors (applier.py:264 can raise)
wiz_fill(t) ==
    /\ task[t].pc = "wizFill" /\ Unpinned
    /\ \E what \in {"raise", "invalid", "valid"} :
         \E r \in {[task[t] EXCEPT !.passes = @ + 1]} :
           Frame(t, CASE what = "raise" -> JobRaises(r)
                      [] what = "invalid" -> OnValidationError(r)
                      [] OTHER -> [r EXCEPT !.pc = "wizAdvance"])
    /\ UNCHANGED <<optVars, resVars, cvVars, fillVars, stepVars>>

\* applier.py:908-909
wiz_close_invalid(t) ==
    /\ task[t].pc = "wizClose" /\ Unpinned
    /\ Frame(t, WizardReturns([task[t] EXCEPT !.closes = @ + 1], FALSE))
    /\ UNCHANGED <<optVars, resVars, cvVars, fillVars, stepVars>>

\* applier.py:910-923
wiz_advance(t) ==
    /\ task[t].pc = "wizAdvance" /\ Unpinned
    /\ \E what \in {"submit", "verify", "next", "none", "raise"} :
         Frame(t, Advance(task[t], what))
    /\ UNCHANGED <<optVars, resVars, cvVars, fillVars, stepVars>>

\* -------------------------------------------------- main(), after the wizard

\* main.py:95-99: the application is counted
CountApplied(r) == [r EXCEPT !.applied_total = @ + 1, !.pc = "waitClosed"]

\* variant: the application is counted before the daily-limit check
CountBeforeLimit(r, lim) ==
    LET c == IF r.applied THEN CountApplied(r) ELSE [r EXCEPT !.pc = "closeB"]
    IN IF lim THEN [LimitSeen(c) EXCEPT !.pc = "closeLimit"] ELSE c

\* variant: the application is counted whatever the wizard reported
CountWhateverReported(r, lim) ==
    IF lim THEN [LimitSeen(r) EXCEPT !.pc = "closeLimit"] ELSE CountApplied(r)

\* main.py:90-101
AfterWizard(r, lim) ==
    IF lim THEN [LimitSeen(r) EXCEPT !.pc = "closeLimit"]
    ELSE IF r.applied THEN CountApplied(r)
    ELSE [r EXCEPT !.pc = "closeB"]

limit_check_3(t) ==
    /\ task[t].pc = "limit3" /\ Unpinned
    /\ \E lim \in BOOLEAN :
         LET r == AfterWizard(task[t], lim) IN
         /\ task' = [task EXCEPT ![t] = r]
         /\ applied_count' = IF r.applied_total # task[t].applied_total
                             THEN r.applied_total ELSE applied_count
         /\ UNCHANGED <<running, error, stop_event, eventSet, overrides_exists,
                        env, nTasks, cbPending, pinned>>
    /\ UNCHANGED <<optVars, resVars, cvVars, fillVars, stepVars>>

\* main.py:101,105
close_not_applied(t) ==
    /\ task[t].pc = "closeB" /\ Unpinned
    /\ Frame(t, [task[t] EXCEPT !.pc = "waitClosed", !.closes = @ + 1])
    /\ UNCHANGED <<optVars, resVars, cvVars, fillVars, stepVars>>

\* main.py:102-105
close_after_exception(t) ==
    /\ task[t].pc = "closeExc" /\ Unpinned
    /\ Frame(t, [task[t] EXCEPT !.pc = "waitClosed", !.closes = @ + 1])
    /\ UNCHANGED <<optVars, resVars, cvVars, fillVars, stepVars>>

\* main.py:105-112, then 73-75
wait_modal_closed(t) ==
    /\ task[t].pc = "waitClosed" /\ Unpinned
    /\ Frame(t, CheckStopBetweenJobs(task[t], StopRequested(t)))
    /\ UNCHANGED <<optVars, resVars, cvVars, fillVars, stepVars>>

\* main.py:113-114, then 57-62
scroll_more(t) ==
    /\ task[t].pc = "scrollmore" /\ Unpinned
    /\ LoopTopEnabled(task[t], StopRequested(t))
    /\ Frame(t, LoopTop(task[t], StopRequested(t)))
    /\ UNCHANGED <<optVars, resVars, cvVars, fillVars, stepVars>>

\* main.py:127-131: what the run leaves in error
ErrorOnExit(r) == IF r.exit = "fatal" THEN "fatal" ELSE error

\* the frame is gone; the task keeps its result
Finished(r) ==
    [NoTask EXCEPT !.pc = "done",
                   !.ret = IF r.exit = "ret0" THEN 0 ELSE 1,
                   !.exit = r.exit,
                   !.navFailed = r.navFailed,
                   !.limitHit = r.limitHit,
                   !.countAtLimit = r.countAtLimit]

\* main.py:122-135: close_context and the exit of the `async with` block
\* return, the outer handlers and `finally` run; the task is done and asyncio
\* schedules its done callback
finish(t) ==
    /\ task[t].pc = "closing" /\ Unpinned
    /\ error' = ErrorOnExit(task[t])
    /\ running' = FALSE
    /\ task' = [task EXCEPT ![t] = Finished(task[t])]
    /\ cbPending' = cbPending \cup {t}
    /\ UNCHANGED <<applied_count, stop_event, eventSet, overrides_exists, env,
                   nTasks, pinned>>
    /\ UNCHANGED <<optVars, resVars, cvVars, fillVars, stepVars>>

\* web_app.py:307-310: _done.  The loop's ready queue is first-in first-out:
\* a run task created before this callback ran was queued behind it, and
\* nothing was queued between the two, so that task's first step is next.
done_callback(t) ==
    /\ t \in cbPending /\ Unpinned
    /\ running' = FALSE
    /\ cbPending' = cbPending \ {t}
    /\ pinned' = IF \E u \in Runs : task[u].pc = "created"
                 THEN CHOOSE u \in Runs : task[u].pc = "created" /\
                          \A v \in Runs : task[v].pc = "created" => u <= v
                 ELSE 0
    /\ UNCHANGED <<applied_count, error, stop_event, eventSet, overrides_exists,
                   env, nTasks, task>>
    /\ UNCHANGED <<optVars, resVars, cvVars, fillVars, stepVars>>

\* -------------------------------------------------- the control surface

\* variant: start() does not look at the running flag
NoRunInProgress == FALSE

\* variant: start() does not look for a configuration
ConfiguredAlways == TRUE

\* web_app.py:291
RunInProgress == running

\* web_app.py:162-166
IsConfiguredFromEnv == env.resume /\ env.email

\* web_app.py:293
Configured == overrides_exists \/ IsConfiguredFromEnv

\* web_app.py:304-305: `_run_task = ...` and `_stop_event = ...` drop the
\* references to the previous run's finished task and to its Event
Forget(r) == IF r.pc = "done" THEN NoTask ELSE r

\* web_app.py:291-297: start() is refused, nothing is written
start_refused ==
    /\ RunInProgress \/ ~Configured
    /\ UNCHANGED <<running, applied_count, error, stop_event, eventSet,
                   overrides_exists, env, nTasks, task, cbPending, pinned>>

\* web_app.py:299-300, 312-318: _run_start_steps raises
start_failed ==
    /\ ~RunInProgress /\ Configured
    /\ running' = FALSE
    /\ error' = "start_failed"
    /\ UNCHANGED <<applied_count, stop_event, eventSet, overrides_exists,
                   env, nTasks, task, cbPending, pinned>>

\* web_app.py:299-311: the run task is created
start_accepted ==
    /\ ~RunInProgress /\ Configured
    /\ nTasks < MaxRuns
    /\ running' = TRUE
    /\ applied_count' = 0
    /\ error' = "None"
    /\ nTasks' = nTasks + 1
    /\ stop_event' = nTasks + 1
    /\ eventSet' = [t \in Runs |-> IF Active(t) THEN eventSet[t] ELSE FALSE]
    /\ task' = [t \in Runs |-> IF t = nTasks + 1
                               THEN [NoTask EXCEPT !.pc = "created"]
                               ELSE Forget(task[t])]
    /\ UNCHANGED <<overrides_exists, env, cbPending, pinned>>

\* web_app.py:288-318.  No await lies between the check of running and
\* create_task, so the handler is one step of the loop.
api_start ==
    /\ Unpinned
    /\ (start_refused \/ start_failed \/ start_accepted)
    /\ UNCHANGED <<optVars, resVars, cvVars, fillVars, stepVars>>

\* variant: stop() also marks the run as not running
StopClearsRunning ==
    /\ Unpinned
    /\ IF ~running \/ stop_event = 0
       THEN UNCHANGED <<eventSet, running>>
       ELSE eventSet' = [eventSet EXCEPT ![stop_event] = TRUE] /\ running' = FALSE
    /\ UNCHANGED <<applied_count, error, stop_event, overrides_exists,
                   env, nTasks, task, cbPending, pinned>>
    /\ UNCHANGED <<optVars, resVars, cvVars, fillVars, stepVars>>

\* web_app.py:321-327
api_stop ==
    /\ Unpinned
    /\ IF ~running \/ stop_event = 0
       THEN UNCHANGED eventSet
       ELSE eventSet' = [eventSet EXCEPT ![stop_event] = TRUE]
    /\ UNCHANGED <<running, applied_count, error, stop_event, overrides_exists,
                   env, nTasks, task, cbPending, pinned>>
    /\ UNCHANGED <<optVars, resVars, cvVars, fillVars, stepVars>>

\* web_app.py:251-257: what status() returns
StatusResponse ==
    [running |-> running, applied_count |-> applied_count, error |-> error]

\* web_app.py:251-257: reads, writes nothing.  It is a plain `def`, which the
\* framework runs in a worker thread: it reads between any two handlers of
\* the loop
api_status ==
    /\ StatusResponse \in [running : BOOLEAN, applied_count : Nat,
                           error : {"None", "fatal", "start_failed"}]
    /\ UNCHANGED <<running, applied_count, error, stop_event, eventSet,
                   overrides_exists, env, nTasks, task, cbPending, pinned>>
    /\ UNCHANGED <<optVars, resVars, cvVars, fillVars, stepVars>>

\* what uploads/resume.pdf holds after an upload: a PDF and its text (the
\* files pypdf cannot read are among the DiskStates a process starts with)
UploadedFiles ==
    {[exists |-> TRUE, text |-> Some("Java developer")]}

\* web_app.py:189-248: the upload is a PDF, it is saved as uploads/resume.pdf
\* and the overrides file is written, or the upload is refused
api_setup_post ==
    /\ Unpinned
    /\ \/ /\ UNCHANGED <<overrides_exists, cv_disk>>
       \/ /\ overrides_exists' = TRUE
          /\ cv_disk' \in UploadedFiles
    /\ UNCHANGED <<running, applied_count, error, stop_event, eventSet,
                   env, nTasks, task, cbPending, pinned>>
    /\ UNCHANGED <<optVars, resVars, _cv_text_cache, PdfReader, cv_calls, fillVars, stepVars>>

\* ------------------------------------------------------ Python strings


\* `not x` for an Optional[str]
Falsy(x) == x = None \/ x[1] = ""

CharAt(s, i) == SubSeq(s, i, i)

UpperChars == "ABCDEFGHIJKLMNOPQRSTUVWXYZ"
LowerChars == "abcdefghijklmnopqrstuvwxyz"

\* str.lower() of one character (the labels, settings and CV texts hold no
\* upper-case letter outside A-Z)
ToLower == [k \in 1..Len(UpperChars) |-> CharAt(LowerChars, k)]
UpperSet == {CharAt(UpperChars, k) : k \in 1..Len(UpperChars)}
UpperIndex == [c \in UpperSet |-> CHOOSE k \in 1..Len(UpperChars) : CharAt(UpperChars, k) = c]
LowerChar(c) == IF c \in UpperSet THEN ToLower[UpperIndex[c]] ELSE c

\* str.lower()
RECURSIVE Lower(_)
Lower(s) ==
    IF s = "" THEN ""
    ELSE IF Len(s) = 1 THEN LowerChar(s)
    ELSE Lower(SubSeq(s, 1, Len(s) \div 2))
            \o Lower(SubSeq(s, Len(s) \div 2 + 1, Len(s)))

\* the characters str.strip() removes
Whitespace == {" ", "\t", "\n", "\r"}

RECURSIVE LStripChars(_, _)
LStripChars(s, chars) ==
    IF s # "" /\ Head(s) \in chars THEN LStripChars(Tail(s), chars) ELSE s

RECURSIVE RStripChars(_, _)
RStripChars(s, chars) ==
    IF s # "" /\ CharAt(s, Len(s)) \in chars
    THEN RStripChars(SubSeq(s, 1, Len(s) - 1), chars) ELSE s

\* str.strip(chars)
StripChars(s, chars) == RStripChars(LStripChars(s, chars), chars)

\* str.strip()
Strip(s) == StripChars(s, Whitespace)

\* `sub in s`
Contains(s, sub) ==
    \E i \in 1..(Len(s) - Len(sub) + 1) : SubSeq(s, i, i + Len(sub) - 1) = sub

StartsWith(s, prefix) ==
    Len(s) >= Len(prefix) /\ SubSeq(s, 1, Len(prefix)) = prefix

\* s[:n]
Truncate(s, n) == IF Len(s) <= n THEN s ELSE SubSeq(s, 1, n)

\* s[n:]
DropFirst(s, n) == SubSeq(s, n + 1, Len(s))

\* two collapsed halves put together: a run of whitespace that spans the
\* cut becomes one space
JoinCollapsed(left, right) ==
    IF CharAt(left, Len(left)) = " " /\ Head(right) = " "
    THEN left \o Tail(right) ELSE left \o right

\* re.sub(r"\s+", " ", s)
RECURSIVE CollapseSpaces(_)
CollapseSpaces(s) ==
    IF s = "" THEN ""
    ELSE IF Len(s) = 1 THEN (IF s \in Whitespace THEN " " ELSE s)
    ELSE JoinCollapsed(CollapseSpaces(SubSeq(s, 1, Len(s) \div 2)),
                       CollapseSpaces(SubSeq(s, Len(s) \div 2 + 1, Len(s))))

\* re.search of a pattern lit1.*lit2.*...: a pattern is the sequence of
\* its literal parts, which occur in that order without overlap (the texts
\* searched hold no newline)
RECURSIVE SearchFrom(_, _, _)
SearchFrom(parts, text, from) ==
    IF parts = <<>> THEN TRUE
    ELSE LET lit == Head(parts)
         IN \E i \in from..(Len(text) - Len(lit) + 1) :
               /\ SubSeq(text, i, i + Len(lit) - 1) = lit
               /\ SearchFrom(Tail(parts), text, i + Len(lit))

Search(parts, text) == SearchFrom(parts, text, 1)

\* any(k in text for k in keywords)
AnyIn(keywords, text) == \E k \in keywords : Contains(text, k)

Digits == "0123456789"

IsDigit(c) == \E k \in 1..Len(Digits) : CharAt(Digits, k) = c

DigitValue(c) == (CHOOSE k \in 1..Len(Digits) : CharAt(Digits, k) = c) - 1

\* str(n) for n >= 0
RECURSIVE IntToStr(_)
IntToStr(n) ==
    IF n < 10 THEN CharAt(Digits, n + 1)
    ELSE IntToStr(n \div 10) \o CharAt(Digits, (n % 10) + 1)

\* the value of a string of digits
RECURSIVE DigitsToInt(_)
DigitsToInt(s) ==
    IF s = "" THEN 0
    ELSE 10 * DigitsToInt(SubSeq(s, 1, Len(s) - 1)) + DigitValue(CharAt(s, Len(s)))

\* the characters of s that are in keep, in order
RECURSIVE Keep(_, _)
Keep(s, keep) ==
    IF s = "" THEN ""
    ELSE IF Len(s) = 1 THEN (IF Contains(keep, s) THEN s ELSE "")
    ELSE Keep(SubSeq(s, 1, Len(s) \div 2), keep)
            \o Keep(SubSeq(s, Len(s) \div 2 + 1, Len(s)), keep)

\* str.isdigit()
AllDigits(s) == s # "" /\ \A i \in 1..Len(s) : IsDigit(CharAt(s, i))

\* int(s) for the strings a setting can hold: None stands for ValueError
ParseInt(s) ==
    LET t == Strip(s)
    IN IF AllDigits(t) THEN Some(DigitsToInt(t)) ELSE None

\* -------------------------------------------------- work_authorization.py

\* work_authorization.py:16-29, alternations written out
WORK_AUTH_PATTERNS ==
    {<<"citizenship">>, <<"citizen of">>, <<"authorized to work">>,
     <<"legally eligible to work">>, <<"legally authorized to work">>,
     <<"right to work">>, <<"reside in">>, <<"residency in">>,
     <<"currently live">>, <<"currently reside">>,
     <<"work permit">>, <<"work authorization">>, <<"work visa">>,
     <<"citoyenneté">>, <<"autorisé à travailler">>, <<"résidence">>,
     <<"work in canada">>, <<"work in usa">>, <<"work in united states">>,
     <<"work in uk">>, <<"work in france">>}

\* work_authorization.py:31-42, alternations and optional groups written out
SPONSORSHIP_QUESTION_PATTERNS ==
    {<<"require", "sponsorship">>, <<"need", "sponsorship">>,
     <<"do you need sponsorship">>, <<"do you require sponsorship">>,
     <<"sponsorship required">>, <<"sponsorship needed">>,
     <<"sponsorship", "visa">>, <<"visa", "sponsorship">>,
     <<"will you ", " require sponsorship">>,
     <<"sponsorship for employment visa">>,
     <<"parrainage", "immigration">>, <<"parrainage", "autorisation">>,
     <<"parrainage", "travail">>, <<"aurez", "parrainage">>}

\* work_authorization.py:45
COUNTRIES ==
    {"canada", "usa", "united states", "uk", "france", "germany", "maroc", "morocco"}

\* work_authorization.py:48-49 and experience_map.py:84-85
_normalize(label) == CollapseSpaces(Strip(Lower(label)))

\* work_authorization.py:62,64
AboutWorkOrStatus(text) == AnyIn({"work", "authorized", "citizen", "resid"}, text)

\* work_authorization.py:52-66
is_work_authorization_question(question_label, country_setting) ==
    IF question_label = "" THEN FALSE
    ELSE LET text == _normalize(question_label)
             country == Lower(country_setting)
         IN \/ \E pat \in WORK_AUTH_PATTERNS : Search(pat, text)
            \/ \E c \in COUNTRIES : Contains(text, c) /\ AboutWorkOrStatus(text)
            \/ Contains(text, country) /\ AboutWorkOrStatus(text)

\* work_authorization.py:79-89
IsSponsorshipQuestion(text) ==
    \/ \E pat \in SPONSORSHIP_QUESTION_PATTERNS : Search(pat, text)
    \/ Contains(text, "sponsorship") /\ AnyIn({"require", "need", "future"}, text)
    \/ Contains(text, "visa") /\ Contains(text, "sponsorship")
    \/ Contains(text, "parrainage")
         /\ AnyIn({"immigration", "autorisation", "travail", "aurez"}, text)

\* work_authorization.py:69-93.  cfg holds the settings as config.py loaded
\* them.
get_work_authorization_answer(question_label, cfg) ==
    IF question_label = "" THEN None
    ELSE IF IsSponsorshipQuestion(_normalize(question_label))
         THEN Some(cfg.WORK_NEED_SPONSORSHIP_ANSWER)
    ELSE IF ~is_work_authorization_question(question_label,
                                            cfg.WORK_AUTHORIZATION_COUNTRY)
         THEN None
    ELSE Some(cfg.WORK_AUTHORIZATION_ANSWER)

\* ------------------------------------------------------ experience_map.py

YEARS_JAVA_CORE == 4
YEARS_PRIMARY == 3
YEARS_OTHER == 2
TOTAL_YEARS_DEFAULT == 3

\* experience_map.py:18-23
TECH_4_YEARS == {"java", "core java", "java se", "jvm"}

\* experience_map.py:26-66
TECH_3_YEARS ==
    {"spring", "spring boot", "springboot", "postgres", "postgresql", "mysql",
     "websocket", "web socket", "webservices", "web services", "rest api",
     "restapis", "restful", "react", "angular", "mockito", "unit test",
     "unittesting", "junit", "agile", "scrum", "agile/scrum", "microservices",
     "docker", "ci/cd", "git", "nestjs", "typescript", "ejb",
     "enterprise javabeans", "data structures", "keycloak", "rbac", "graphql",
     "graph ql", "ruby", "banking", "angular ui", "ui integration"}

\* experience_map.py:69-81, alternations written out
YES_NO_EXPERIENCE_PATTERNS ==
    {<<"do you have ", " experience">>, <<"do you have experience">>,
     <<"do you have at least">>, <<"do you have an understanding of">>,
     <<"have you worked">>, <<"have you used">>, <<"have you experience">>,
     <<"are you experienced">>, <<"are you familiar">>,
     <<"experience with ", "?">>,
     <<"experience programming">>, <<"experience using">>, <<"experience with">>,
     <<"avez-vous ", " expérience">>,
     <<"oui ou non">>, <<"yes or no">>, <<"yes/no">>}

\* get_years_for_question with the two technology loops in the other order
YearsMidTierFirst(question_label) ==
    IF question_label = "" THEN None
    ELSE LET text == _normalize(question_label)
         IN IF ~AnyIn({"year", "years", "année", "expérience", "experience"}, text)
            THEN None
            ELSE IF Contains(text, "total")
                    /\ (Contains(text, "year") \/ Contains(text, "experience"))
                 THEN Some(TOTAL_YEARS_DEFAULT)
            ELSE IF AnyIn(TECH_3_YEARS, text) THEN Some(YEARS_PRIMARY)
            ELSE IF AnyIn(TECH_4_YEARS, text) THEN Some(YEARS_JAVA_CORE)
            ELSE IF Contains(text, "year") \/ Contains(text, "experience")
                 THEN Some(YEARS_OTHER)
            ELSE None

\* experience_map.py:88-109: an Optional number of years
get_years_for_question(question_label) ==
    IF question_label = "" THEN None
    ELSE LET text == _normalize(question_label)
         IN IF ~AnyIn({"year", "years", "année", "expérience", "experience"}, text)
            THEN None
            ELSE IF Contains(text, "total")
                    /\ (Contains(text, "year") \/ Contains(text, "experience"))
                 THEN Some(TOTAL_YEARS_DEFAULT)
            ELSE IF AnyIn(TECH_4_YEARS, text) THEN Some(YEARS_JAVA_CORE)
            ELSE IF AnyIn(TECH_3_YEARS, text) THEN Some(YEARS_PRIMARY)
            ELSE IF Contains(text, "year") \/ Contains(text, "experience")
                 THEN Some(YEARS_OTHER)
            ELSE None

\* is_yes_no_experience_question without the "how many ... years" test
YesNoWithoutQuantity(question_label) ==
    IF question_label = "" THEN FALSE
    ELSE \E pat \in YES_NO_EXPERIENCE_PATTERNS : Search(pat, _normalize(question_label))

\* experience_map.py:112-122
is_yes_no_experience_question(question_label) ==
    IF question_label = "" THEN FALSE
    ELSE LET text == _normalize(question_label)
         IN IF Contains(text, "how many") /\ Contains(text, "years") THEN FALSE
            ELSE \E pat \in YES_NO_EXPERIENCE_PATTERNS : Search(pat, text)

\* experience_map.py:125-134
get_yes_no_for_experience(question_label) ==
    IF ~is_yes_no_experience_question(question_label) THEN None
    ELSE LET found == get_years_for_question(question_label)
             years == IF found = None THEN YEARS_OTHER ELSE found[1]
         IN IF years > 0 THEN Some("Yes") ELSE Some("No")

\* --------------------------------------------------- the generative providers

\* What a provider can reply with.
Completions == {"a", "'Ab'", " b ", "c", "", " ", "''", "7 years", "120"}

\* Gemini: no key or no library; a response; a quota error; another error
GeminiOutcomes ==
    {[kind |-> k, text |-> None] : k \in {"off", "quota", "error"}}
    \cup {[kind |-> "response", text |-> x] :
             x \in {None} \cup {Some(c) : c \in Completions}}

\* Groq: whether the library is there (GroqFor adds the key), and the
\* content of the reply to the first and to the second call (None: the
\* call failed)
GroqOutcomes ==
    [key : BOOLEAN,
     replies : [1..2 -> {None, Some("a"), Some(" "), Some("c")}]]

\* gemini_cv.py:28-44, the n-th call
_call_groq(groq, n) ==
    IF ~groq.key \/ groq.replies[n] = None THEN None
    ELSE LET text == Strip(groq.replies[n][1])
         IN IF text # "" THEN Some(text) ELSE None

\* gemini_cv.py:94-106 (and 54-65, 132-144, 174-186, 223-235): Gemini, Groq
\* on a quota error, then Groq when there is still no text
CompletionText(gemini, groq) ==
    LET first ==
            CASE gemini.kind = "response" -> gemini.text
              [] gemini.kind = "quota" -> _call_groq(groq, 1)
              [] OTHER -> None
        n == IF gemini.kind = "quota" THEN 2 ELSE 1
    IN IF Falsy(first) /\ groq.key THEN _call_groq(groq, n) ELSE first

\* gemini_cv.py:94-106 (and 54-65, 132-144, 174-186, 223-235): the calls
\* that reach a provider's API, in order, each with how it ended. Gemini is
\* called when its key and library are there (95); _call_groq reaches the
\* API only past its guard (30-31).
CallTrace(gemini, groq) ==
    LET primary ==
            CASE gemini.kind = "off" -> <<>>
              [] gemini.kind = "response" ->
                   <<[provider |-> "gemini",
                      outcome |-> IF Falsy(gemini.text) THEN "empty" ELSE "text"]>>
              [] OTHER -> <<[provider |-> "gemini", outcome |-> gemini.kind]>>
        GroqCall(n) ==
            IF ~groq.key THEN <<>>
            ELSE <<[provider |-> "groq",
                    outcome |-> IF _call_groq(groq, n) = None THEN "none" ELSE "text"]>>
        first ==
            CASE gemini.kind = "response" -> gemini.text
              [] gemini.kind = "quota" -> _call_groq(groq, 1)
              [] OTHER -> None
        on_quota == IF gemini.kind = "quota" THEN GroqCall(1) ELSE <<>>
        n == IF gemini.kind = "quota" THEN 2 ELSE 1
        fallback == IF Falsy(first) /\ groq.key THEN GroqCall(n) ELSE <<>>
    IN primary \o on_quota \o fallback

\* gemini_cv.py:66-70
get_salary_expectation_gemini(text) ==
    IF Falsy(text) THEN "95000"
    ELSE LET num == Keep(Strip(text[1]), "0123456789.")
             dot == IF Contains(num, ".")
                    THEN CHOOSE i \in 1..Len(num) :
                           CharAt(num, i) = "." /\ ~Contains(SubSeq(num, 1, i - 1), ".")
                    ELSE 0
             whole == IF dot > 0 THEN SubSeq(num, 1, dot - 1) ELSE num
         IN IF num = "" THEN "95000"
            ELSE IF dot > 0 /\ AllDigits(whole) THEN whole
            ELSE IF AllDigits(num) THEN num
            ELSE "95000"

\* gemini_cv.py:116
MaxAnswerLength == 100

\* gemini_cv.py:145-148 and 236-239
ShortAnswer(text) ==
    IF Falsy(text) THEN None
    ELSE LET out == Truncate(StripChars(Strip(text[1]), {"\"", "'"}), MaxAnswerLength)
         IN IF out # "" THEN Some(out) ELSE None

\* gemini_cv.py:116-148
get_answer_any_question_gemini(question, text) ==
    IF Strip(question) = "" THEN None ELSE ShortAnswer(text)

\* gemini_cv.py:187-194
YearsFromText(text) ==
    IF Falsy(text) THEN None
    ELSE LET num == Keep(Strip(text[1]), Digits)
         IN IF num = "" THEN None
            ELSE LET n == IF Len(num) >= 2 THEN DigitsToInt(SubSeq(num, 1, 2))
                                          ELSE DigitsToInt(num)
                 IN Some(IntToStr(IF n > 99 THEN 99 ELSE n))

\* gemini_cv.py:151-194
get_years_of_experience_from_cv(question, cv_text, text) ==
    IF question = "" \/ Strip(cv_text) = "" \/ Len(Strip(cv_text)) < 30
    THEN None
    ELSE YearsFromText(text)

\* gemini_cv.py:197-239
get_answer_from_cv_with_gemini(question, cv_text, cfg, text) ==
    IF ~cfg.USE_GEMINI_FOR_CV \/ cv_text = "" \/ question = "" THEN None
    ELSE IF Strip(question) = "" \/ Len(Strip(cv_text)) < 50 THEN None
    ELSE ShortAnswer(text)

\* ------------------------------------------------------------ cv_reader.py

\* cv_reader.py:55,60,148: re.sub(r"\s*\?+\s*\*?\s*$", "", s)
StripQuestionTail(s) ==
    LET a == RStripChars(s, Whitespace)
        b == IF a # "" /\ CharAt(a, Len(a)) = "*"
             THEN RStripChars(SubSeq(a, 1, Len(a) - 1), Whitespace)
             ELSE a
        c == RStripChars(b, {"?"})
    IN IF c = b THEN s ELSE RStripChars(c, Whitespace)

\* str.index(sub) + 1
IndexOf(s, sub) ==
    CHOOSE i \in 1..(Len(s) - Len(sub) + 1) :
        /\ SubSeq(s, i, i + Len(sub) - 1) = sub
        /\ \A j \in 1..(i - 1) : SubSeq(s, j, j + Len(sub) - 1) # sub

Smallest(S) == CHOOSE k \in S : \A j \in S : k <= j
Largest(S) == CHOOSE k \in S : \A j \in S : k >= j

\* cv_reader.py:51
SkillSeparators == <<" with ", " avec ", " using ", " utilisant ", " in ">>

\* cv_reader.py:53-55
AfterSeparator(text, sep) ==
    Strip(StripQuestionTail(
        Strip(DropFirst(text, IndexOf(Lower(text), sep) + Len(sep) - 1))))

\* cv_reader.py:49-60: the part of the question that names the skills
RestOfQuestion(question_label) ==
    LET text == Strip(question_label)
        ok == {k \in 1..Len(SkillSeparators) :
                 /\ Contains(Lower(text), SkillSeparators[k])
                 /\ Len(AfterSeparator(text, SkillSeparators[k])) > 2
                 /\ Len(AfterSeparator(text, SkillSeparators[k])) < 150}
    IN IF ok # {} THEN AfterSeparator(text, SkillSeparators[Smallest(ok)])
       ELSE Strip(StripQuestionTail(text))

\* cv_reader.py:62-65
TechList(rest) ==
    IF ~Contains(rest, ":") THEN rest
    ELSE LET last == Largest({i \in 1..Len(rest) : CharAt(rest, i) = ":"})
             after_colon == Strip(DropFirst(rest, last))
         IN IF Len(after_colon) > 2 /\ Len(after_colon) < 120
            THEN after_colon ELSE rest

\* cv_reader.py:67: the words of the split pattern, in its order
Connectors == <<"et/ou", "and/or", "and", "or", "et", "ou">>

\* cv_reader.py:67: the length of the separator the split pattern matches at
\* the head of s (0: none)
SeparatorAt(s) ==
    IF Head(s) \in {",", "/"} THEN 1
    ELSE IF Head(s) \notin Whitespace THEN 0
    ELSE LET t == LStripChars(s, Whitespace)
             hits == {k \in 1..Len(Connectors) :
                        /\ StartsWith(Lower(t), Connectors[k])
                        /\ Len(t) > Len(Connectors[k])
                        /\ CharAt(t, Len(Connectors[k]) + 1) \in Whitespace}
         IN IF hits = {} THEN 0
            ELSE LET u == DropFirst(t, Len(Connectors[Smallest(hits)]))
                 IN Len(s) - Len(LStripChars(u, Whitespace))

\* cv_reader.py:67: re.split, as the set of the parts
RECURSIVE SplitParts(_, _)
SplitParts(s, cur) ==
    IF s = "" THEN {cur}
    ELSE IF SeparatorAt(s) > 0
         THEN {cur} \cup SplitParts(DropFirst(s, SeparatorAt(s)), "")
         ELSE SplitParts(Tail(s), cur \o Head(s))

\* cv_reader.py:70: the alternatives of the leading-word pattern, in the
\* order the pattern tries them
LeadingWords == <<"des", "de", "du", "de la", "les", "le", "the", "using", "utilisant">>

\* cv_reader.py:70: re.sub(r"^(des?|du|de la|les?|the|using|utilisant)\s+", "", p)
DropLeadingWord(p) ==
    LET hits == {k \in 1..Len(LeadingWords) :
                   /\ StartsWith(Lower(p), LeadingWords[k])
                   /\ Len(p) > Len(LeadingWords[k])
                   /\ CharAt(p, Len(LeadingWords[k]) + 1) \in Whitespace}
    IN IF hits = {} THEN p
       ELSE LStripChars(DropFirst(p, Len(LeadingWords[Smallest(hits)])), Whitespace)

\* cv_reader.py:70-71
CleanPart(p) == StripChars(Strip(DropLeadingWord(Strip(p))), {" ", ".", "*"})

\* cv_reader.py:83
WordChars == "abcdefghijklmnopqrstuvwxyzABCDEFGHIJKLMNOPQRSTUVWXYZ0123456789+#./"

\* cv_reader.py:83: re.findall(r"[a-zA-Z0-9+#./]+", s), as a set
RECURSIVE FindWords(_, _)
FindWords(s, cur) ==
    IF s = "" THEN {cur} \ {""}
    ELSE IF Contains(WordChars, Head(s))
         THEN FindWords(Tail(s), cur \o Head(s))
         ELSE ({cur} \ {""}) \cup FindWords(Tail(s), "")

\* cv_reader.py:84
StopWords ==
    {"the", "and", "you", "have", "your", "avec", "experience", "expérience",
     "years", "années"}

\* cv_reader.py:40-86, as the set of the phrases.  The caller only asks
\* whether some phrase is found.
_extract_skill_phrases_from_question(question_label) ==
    IF Strip(question_label) = "" THEN {}
    ELSE LET rest == TechList(RestOfQuestion(question_label))
             phrases == {Lower(CleanPart(p)) : p \in SplitParts(rest, "")}
             result == {ph \in phrases : Len(ph) > 1 /\ Len(ph) < 60}
         IN IF result = {} /\ rest # ""
            THEN {Lower(w) : w \in {x \in FindWords(rest, "") :
                                      Len(x) > 2 /\ Lower(x) \notin StopWords}}
            ELSE result

\* str.split(sep) for a one-character sep, as a set
RECURSIVE SplitOn(_, _, _)
SplitOn(s, sep, cur) ==
    IF s = "" THEN {cur}
    ELSE IF Head(s) = sep THEN {cur} \cup SplitOn(Tail(s), sep, "")
    ELSE SplitOn(Tail(s), sep, cur \o Head(s))

\* str.replace(" ", "")
RECURSIVE RemoveSpaces(_)
RemoveSpaces(s) ==
    IF s = "" THEN ""
    ELSE IF Len(s) = 1 THEN (IF s = " " THEN "" ELSE s)
    ELSE RemoveSpaces(SubSeq(s, 1, Len(s) \div 2))
            \o RemoveSpaces(SubSeq(s, Len(s) \div 2 + 1, Len(s)))

\* _skill_mentioned_in_cv that never looks the skill up
SkillAlwaysMentioned(question_label, cv_text, config_skills_list) == TRUE

\* cv_reader.py:89-112
_skill_mentioned_in_cv(question_label, cv_text, config_skills_list) ==
    LET phrases == _extract_skill_phrases_from_question(question_label)
        list_parts == {Lower(Strip(x)) :
                         x \in {y \in SplitOn(config_skills_list, ",", "") :
                                  Strip(y) # ""}}
        cv_lower == Lower(cv_text)
    IN \/ phrases = {}
       \/ /\ Strip(config_skills_list) # ""
          /\ \E ph \in phrases, part \in list_parts :
                Contains(ph, part) \/ Contains(part, ph)
       \/ /\ Strip(cv_text) # ""
          /\ \E ph \in phrases :
                \/ Contains(cv_lower, ph)
                \/ Len(ph) > 3 /\ Contains(RemoveSpaces(cv_lower), RemoveSpaces(ph))

\* str.split()[0]
FirstWord(s) ==
    LET t == LStripChars(s, Whitespace)
        ws == {i \in 1..Len(t) : CharAt(t, i) \in Whitespace}
    IN IF ws = {} THEN t ELSE SubSeq(t, 1, Smallest(ws) - 1)

\* cv_reader.py:115-134
_has_certification(cert_name, cv_text, config_list) ==
    IF Strip(cert_name) = "" THEN FALSE
    ELSE LET cert_clean == Lower(Strip(cert_name))
             cert_key == FirstWord(cert_clean)
             parts == {Lower(Strip(x)) : x \in SplitOn(config_list, ",", "")}
         IN \/ Contains(Lower(cv_text), cert_key)
            \/ /\ config_list # ""
               /\ \E part \in parts :
                     part # "" /\ (Contains(cert_clean, part) \/ Contains(part, cert_key))

\* cv_reader.py:137-153: the certification asked about, as an Optional
_certification_question_and_name(question_label) ==
    LET label_lower == Lower(question_label)
        first == IF Contains(question_label, ":")
                 THEN Smallest({i \in 1..Len(question_label) :
                                  CharAt(question_label, i) = ":"})
                 ELSE 0
        after_colon == Strip(StripQuestionTail(Strip(DropFirst(question_label, first))))
    IN IF question_label = "" THEN None
       ELSE IF ~AnyIn({"certificat", "certification", "permit", "permis", "licence"},
                      label_lower)
            THEN None
       ELSE IF /\ first > 0
               /\ after_colon # "" /\ Len(after_colon) < 80
               /\ ~\E w \in {"avez", "do you", "have you"} :
                      StartsWith(Lower(after_colon), w)
            THEN Some(after_colon)
       ELSE IF Contains(label_lower, "certification") \/ Contains(label_lower, "certificat")
            THEN Some(Strip(question_label))
       ELSE None

\* cv_reader.py:156-175: the text of the CV, "" when there is no path, no
\* file or no readable PDF (file: the text of the PDF at the path, or None)
load_cv_text(cv_path, file) ==
    IF cv_path = "" \/ file = None THEN "" ELSE file[1]

\* where the resolver stands: it returned an answer, or it is in a call of
\* one of the provider functions of gemini_cv.py
Answered(a) == [pc |-> "answered", answer |-> a]
Calling(f) == [pc |-> f, answer |-> None]

\* cv_reader.py:280-283 and 331-335: str(int(years_default)), "3" on ValueError
YearsDefault(years_default) ==
    IF ParseInt(years_default) = None THEN "3"
    ELSE IntToStr(ParseInt(years_default)[1])

\* cv_reader.py:329-344
UltimateFallback(question_label, years_default) ==
    LET label_lower == Lower(question_label)
    IN IF AnyIn({"year", "experience", "how many"}, label_lower)
       THEN YearsDefault(years_default)
       ELSE IF AnyIn({"yes", "no", "experience with", "have you", "do you have"},
                     label_lower)
            THEN "Yes"
       ELSE IF AnyIn({"number", "salary", "amount"}, label_lower) THEN "1"
       ELSE IF /\ Len(Strip(question_label)) < 40
               /\ ~AnyIn({"describe", "explain", "why", "what", "comment"}, label_lower)
            THEN "5.0"
       ELSE "N/A"

\* cv_reader.py:325-344: get_answer_any_question_gemini returned
AfterAnyAnswer(question_label, years_default, gemini_ans) ==
    IF gemini_ans # None THEN Answered(gemini_ans)
    ELSE Answered(Some(UltimateFallback(question_label, years_default)))

\* cv_reader.py:322-325: get_answer_from_cv_with_gemini returned
AfterCvAnswer(gemini_ans) ==
    IF gemini_ans # None THEN Answered(gemini_ans) ELSE Calling("any_answer")

\* cv_reader.py:317-344
OpenEnded(question_label, years_default, cv_path, file, use_gemini) ==
    LET cv_text == load_cv_text(cv_path, file)
    IN IF use_gemini
       THEN IF cv_text # "" /\ Len(Strip(cv_text)) >= 50
            THEN Calling("cv_answer") ELSE Calling("any_answer")
       ELSE Answered(Some(UltimateFallback(question_label, years_default)))

\* cv_reader.py:308-311
RatingKeywords ==
    {"frontend", "backend", "microservice", "microservices", "api", "database",
     "devops", "fullstack", "full-stack", "mobile", "cloud", "security",
     "testing", "data"}

\* cv_reader.py:305-344
FromRating(question_label, years_default, cv_path, file, use_gemini) ==
    LET label_clean == Strip(Lower(RStripChars(Strip(question_label), {"*"})))
    IN IF label_clean # "" /\ Len(label_clean) < 50 /\ AnyIn(RatingKeywords, label_clean)
       THEN IF Contains(label_clean, "frontend") \/ Contains(label_clean, "backend")
            THEN Answered(Some("8.0")) ELSE Answered(Some("5.0"))
       ELSE OpenEnded(question_label, years_default, cv_path, file, use_gemini)

\* cv_reader.py:301-305: get_years_of_experience_from_cv returned
AfterYearsLate(question_label, years_default, cv_path, file, use_gemini, ai_years) ==
    IF ai_years # None THEN Answered(ai_years)
    ELSE FromRating(question_label, years_default, cv_path, file, use_gemini)

\* cv_reader.py:294-305
FromYearsMap(question_label, years_default, cv_path, file, use_gemini) ==
    LET years == get_years_for_question(question_label)
    IN IF years # None THEN Answered(Some(IntToStr(years[1])))
       ELSE IF use_gemini /\ cv_path # ""
                 /\ Len(Strip(load_cv_text(cv_path, file))) >= 50
            THEN Calling("years_late")
       ELSE FromRating(question_label, years_default, cv_path, file, use_gemini)

\* cv_reader.py:285-293
FromYesNo(question_label, years_default, cv_path, file, use_gemini, cfg) ==
    IF is_yes_no_experience_question(question_label)
       /\ ~_skill_mentioned_in_cv(question_label, load_cv_text(cv_path, file),
                                  cfg.EASY_APPLY_CERTIFICATIONS)
    THEN Answered(Some("No"))
    ELSE IF is_yes_no_experience_question(question_label)
            /\ get_yes_no_for_experience(question_label) # None
         THEN Answered(get_yes_no_for_experience(question_label))
    ELSE FromYearsMap(question_label, years_default, cv_path, file, use_gemini)

\* cv_reader.py:277-283: get_years_of_experience_from_cv returned
AfterYearsEarly(years_default, ai_years) ==
    IF ai_years # None THEN Answered(ai_years)
    ELSE Answered(Some(YearsDefault(years_default)))

\* cv_reader.py:264
YearsRatingKeywords ==
    {"frontend", "backend", "microservice", "api", "database", "devops",
     "fullstack", "mobile", "cloud", "security", "testing"}

\* cv_reader.py:261-283, then 285
FromYears(question_label, years_default, cv_path, file, use_gemini, cfg) ==
    LET label_lower == Lower(question_label)
        cv_text == load_cv_text(cv_path, file)
        years == get_years_for_question(question_label)
    IN IF ~(Contains(label_lower, "years") /\ Contains(label_lower, "experience"))
          \/ AnyIn(YearsRatingKeywords, label_lower)
       THEN FromYesNo(question_label, years_default, cv_path, file, use_gemini, cfg)
       ELSE IF Contains(label_lower, "how many")
               /\ ~_skill_mentioned_in_cv(question_label, cv_text,
                                          cfg.EASY_APPLY_CERTIFICATIONS)
            THEN Answered(Some("0"))
       ELSE IF years # None THEN Answered(Some(IntToStr(years[1])))
       ELSE IF use_gemini /\ cv_text # "" /\ Len(Strip(cv_text)) >= 50
            THEN Calling("years_early")
       ELSE Answered(Some(YearsDefault(years_default)))

\* cv_reader.py:217-220
HybridKeywords ==
    {"hybride", "hybrid", "remote", "télétravail", "telework", "work from home",
     "présence obligatoire", "on-site", "on site", "in-office",
     "work arrangement", "mode de travail", "work mode"}

\* cv_reader.py:252-259, then 261
FromCertification(question_label, years_default, cv_path, file, use_gemini, cfg) ==
    LET cert == _certification_question_and_name(question_label)
    IN IF cert = None
       THEN FromYears(question_label, years_default, cv_path, file, use_gemini, cfg)
       ELSE IF _has_certification(cert[1], load_cv_text(cv_path, file),
                                  cfg.EASY_APPLY_CERTIFICATIONS)
            THEN Answered(Some("Yes")) ELSE Answered(Some("No"))

\* `a or b` for strings
Or(a, b) == IF a # "" THEN a ELSE b

\* cv_reader.py:234-250, then 252
FromNotice(question_label, years_default, cv_path, file, use_gemini, cfg) ==
    LET label_lower == Lower(question_label)
    IN IF Contains(label_lower, "notice")
          /\ AnyIn({"start", "before", "joining"}, label_lower)
       THEN Answered(Some(Strip(Or(cfg.NOTICE_PERIOD_DEFAULT, "3 months"))))
       ELSE IF \/ Contains(label_lower, "current company")
               \/ Contains(label_lower, "company") /\ Contains(label_lower, "current")
            THEN Answered(Some(Strip(Or(cfg.EASY_APPLY_CURRENT_COMPANY, "N/A"))))
       ELSE IF \/ Contains(label_lower, "current title")
               \/ Contains(label_lower, "title") /\ Contains(label_lower, "current")
            THEN Answered(Some(Strip(Or(cfg.EASY_APPLY_CURRENT_TITLE, "N/A"))))
       ELSE IF Contains(label_lower, "pronouns")
            THEN Answered(Some("Prefer not to say"))
       ELSE IF AnyIn({"gender", "sexe", "sex ", "male", "female",
                      "how do you describe your gender"}, label_lower)
            THEN IF cfg.EASY_APPLY_GENDER # ""
                 THEN Answered(Some(Strip(cfg.EASY_APPLY_GENDER)))
                 ELSE Answered(Some("Male"))
       ELSE FromCertification(question_label, years_default, cv_path, file,
                              use_gemini, cfg)

\* cv_reader.py:227-232, then 234
FromSalary(question_label, years_default, cv_path, file, use_gemini, cfg) ==
    LET label_lower == Lower(question_label)
    IN IF Contains(label_lower, "salary")
          /\ AnyIn({"expectation", "expected", "compensation"}, label_lower)
       THEN Calling("salary")
       ELSE FromNotice(question_label, years_default, cv_path, file, use_gemini, cfg)

\* cv_reader.py:230-234: get_salary_expectation_gemini returned
AfterSalary(question_label, years_default, cv_path, file, use_gemini, cfg, salary) ==
    IF salary # "" THEN Answered(Some(salary))
    ELSE FromNotice(question_label, years_default, cv_path, file, use_gemini, cfg)

\* cv_reader.py:196-225, then 227
FromLegalStatus(question_label, years_default, cv_path, file, use_gemini, cfg) ==
    LET label_lower == Lower(question_label)
    IN IF Contains(label_lower, "legal status") /\ Contains(label_lower, "canada")
       THEN Answered(Some("No status"))
       ELSE IF /\ Contains(label_lower, "location") /\ Contains(label_lower, "city")
               /\ cfg.DEFAULT_LOCATION_CITY # ""
            THEN Answered(Some(Strip(cfg.DEFAULT_LOCATION_CITY)))
       ELSE IF /\ AnyIn({"first name", "prénom", "prenom", "given name"}, label_lower)
               /\ ~Contains(label_lower, "last")
               /\ ~Contains(label_lower, "nom de famille")
            THEN IF cfg.EASY_APPLY_FIRST_NAME # ""
                 THEN Answered(Some(Strip(cfg.EASY_APPLY_FIRST_NAME)))
                 ELSE Answered(Some("N/A"))
       ELSE IF \/ AnyIn({"last name", "nom de famille", "family name", "surname"},
                        label_lower)
               \/ Strip(label_lower) = "nom"
            THEN IF cfg.EASY_APPLY_LAST_NAME # ""
                 THEN Answered(Some(Strip(cfg.EASY_APPLY_LAST_NAME)))
                 ELSE Answered(Some("N/A"))
       ELSE IF AnyIn(HybridKeywords, label_lower)
            THEN IF Lower(Strip(Or(cfg.EASY_APPLY_HYBRID_ANSWER, "Yes")))
                      \in {"no", "non", "0", "false"}
                 THEN Answered(Some("No")) ELSE Answered(Some("Yes"))
       ELSE FromSalary(question_label, years_default, cv_path, file, use_gemini, cfg)

\* variant: the chain starts at its second rule
AnswerWithoutOverride(label, years_default, cv_path, file, use_gemini, cfg) ==
    IF Strip(label) = "" THEN Answered(None)
    ELSE FromLegalStatus(Strip(label), years_default, cv_path, file, use_gemini, cfg)

\* cv_reader.py:178-194, then 196.  The label is stripped first (188).
get_answer_for_question(label, years_default, cv_path, file, use_gemini, cfg) ==
    LET question_label == Strip(label)
        work_ans == get_work_authorization_answer(question_label, cfg)
    IN IF question_label = "" THEN Answered(None)
       ELSE IF work_ans # None THEN Answered(work_ans)
       ELSE FromLegalStatus(question_label, years_default, cv_path, file,
                            use_gemini, cfg)

\* config.py:40-73: the settings the resolver and the providers read
SettingNames ==
    {"EASY_APPLY_FIRST_NAME", "EASY_APPLY_LAST_NAME", "EASY_APPLY_YEARS_DEFAULT",
     "EASY_APPLY_CURRENT_COMPANY", "EASY_APPLY_CURRENT_TITLE", "EASY_APPLY_GENDER",
     "CV_PATH", "GEMINI_API_KEY", "USE_GEMINI_FOR_CV", "GROQ_API_KEY",
     "DEFAULT_LOCATION_CITY", "NOTICE_PERIOD_DEFAULT", "EASY_APPLY_CERTIFICATIONS",
     "EASY_APPLY_HYBRID_ANSWER", "WORK_AUTHORIZATION_ANSWER",
     "WORK_NEED_SPONSORSHIP_ANSWER", "WORK_AUTHORIZATION_COUNTRY"}

\* os.getenv(name, default)
Getenv(e, name, default) == IF e[name] = None THEN default ELSE e[name][1]

\* config.py:40-73
LoadConfig(e) ==
    [EASY_APPLY_FIRST_NAME |-> Strip(Getenv(e, "EASY_APPLY_FIRST_NAME", "")),
     EASY_APPLY_LAST_NAME |-> Strip(Getenv(e, "EASY_APPLY_LAST_NAME", "")),
     EASY_APPLY_YEARS_DEFAULT |-> Getenv(e, "EASY_APPLY_YEARS_DEFAULT", "3"),
     EASY_APPLY_CURRENT_COMPANY |-> Strip(Getenv(e, "EASY_APPLY_CURRENT_COMPANY", "")),
     EASY_APPLY_CURRENT_TITLE |-> Strip(Getenv(e, "EASY_APPLY_CURRENT_TITLE", "")),
     EASY_APPLY_GENDER |-> Strip(Getenv(e, "EASY_APPLY_GENDER", "")),
     CV_PATH |-> Getenv(e, "CV_PATH", ""),
     GEMINI_API_KEY |-> Getenv(e, "GEMINI_API_KEY", ""),
     USE_GEMINI_FOR_CV |->
         Lower(Getenv(e, "USE_GEMINI_FOR_CV", "true")) \in {"true", "1", "yes"},
     GROQ_API_KEY |-> Getenv(e, "GROQ_API_KEY", ""),
     DEFAULT_LOCATION_CITY |-> Getenv(e, "DEFAULT_LOCATION_CITY", "Casablanca"),
     NOTICE_PERIOD_DEFAULT |-> Getenv(e, "NOTICE_PERIOD_DEFAULT", "3 months"),
     EASY_APPLY_CERTIFICATIONS |-> Strip(Getenv(e, "EASY_APPLY_CERTIFICATIONS", "")),
     EASY_APPLY_HYBRID_ANSWER |-> Strip(Getenv(e, "EASY_APPLY_HYBRID_ANSWER", "Yes")),
     WORK_AUTHORIZATION_ANSWER |-> Getenv(e, "WORK_AUTHORIZATION_ANSWER", "No"),
     WORK_NEED_SPONSORSHIP_ANSWER |-> Getenv(e, "WORK_NEED_SPONSORSHIP_ANSWER", "Yes"),
     WORK_AUTHORIZATION_COUNTRY |-> Getenv(e, "WORK_AUTHORIZATION_COUNTRY", "Canada")]

\* nothing is set: every default of config.py applies
EnvUnset == [n \in SettingNames |-> None]

\* every setting is set to the same value
EnvAll(v) == [n \in SettingNames |-> Some(v)]

\* a profile as the setup form writes it, both providers configured
EnvFilled ==
    [EnvUnset EXCEPT
        !["EASY_APPLY_FIRST_NAME"] = Some("Ada"),
        !["EASY_APPLY_LAST_NAME"] = Some("Lovelace"),
        !["EASY_APPLY_YEARS_DEFAULT"] = Some(" 5 "),
        !["EASY_APPLY_CURRENT_COMPANY"] = Some("Acme"),
        !["EASY_APPLY_GENDER"] = Some("Female"),
        !["CV_PATH"] = Some("/data/cv.pdf"),
        !["GEMINI_API_KEY"] = Some("g-key"),
        !["GROQ_API_KEY"] = Some("q-key"),
        !["DEFAULT_LOCATION_CITY"] = Some(" Rabat "),
        !["NOTICE_PERIOD_DEFAULT"] = Some("1 month"),
        !["EASY_APPLY_CERTIFICATIONS"] = Some("AWS, Kubernetes"),
        !["EASY_APPLY_HYBRID_ANSWER"] = Some("Non"),
        !["WORK_AUTHORIZATION_ANSWER"] = Some("No"),
        !["WORK_NEED_SPONSORSHIP_ANSWER"] = Some("Yes")]

\* a candidate authorized to work in France, Gemini only, no generative
\* answers from the CV
EnvCitizen ==
    [EnvUnset EXCEPT
        !["CV_PATH"] = Some("/data/cv.pdf"),
        !["GEMINI_API_KEY"] = Some("g-key"),
        !["USE_GEMINI_FOR_CV"] = Some("false"),
        !["EASY_APPLY_YEARS_DEFAULT"] = Some("three"),
        !["WORK_AUTHORIZATION_ANSWER"] = Some("Yes"),
        !["WORK_NEED_SPONSORSHIP_ANSWER"] = Some("No"),
        !["WORK_AUTHORIZATION_COUNTRY"] = Some("France")]

\* Groq only, the authorization answer set to nothing
EnvGroqOnly ==
    [EnvUnset EXCEPT
        !["CV_PATH"] = Some("/data/cv.pdf"),
        !["GROQ_API_KEY"] = Some("q-key"),
        !["WORK_AUTHORIZATION_ANSWER"] = Some("")]

Environments == {EnvUnset, EnvAll(""), EnvAll(" "), EnvFilled, EnvCitizen, EnvGroqOnly}

\* the text of the CV file
CvFiles ==
    {None, Some(""), Some("Java developer"),
     Some("Software engineer with 4 years of Java, Spring Boot and Docker experience. AWS certified.")}

\* the labels of the questions asked
Labels ==
    {"Are you legally authorized to work in Canada?",
     "Do you have work authorization and experience with Java?",
     "Will you now or in the future require sponsorship for employment visa status?",
     "How many years of work experience do you have in Canada?",
     "What is your legal status in Canada?",
     "Location (city)",
     "First name",
     " Nom ",
     "Are you comfortable working in a hybrid setting?",
     "What are your salary expectations?",
     "What is your notice period before joining?",
     "Current company",
     "What are your pronouns?",
     "Gender",
     "Do you have the required certificate: AWS Certifications?",
     "How many years of experience do you have with Java?",
     "How many years of experience with Kubernetes?",
     "Do you have experience with Docker?",
     "backend*",
     "Why do you want to join us?",
     "Describe a project you are proud of and explain your role",
     "Expected graduation year",
     "Years of frontend experience",
     "Website",
     "How many years of experience with Java?",
     "How many total years of experience do you have with Java?",
     "Are you proficient in Java?",
     "How many years of experience do you have with Java and Spring Boot?",
     "How many years of experience with backend APIs?",
     "Are you authorized to work in Canada without visa sponsorship?"}

\* the provider functions of gemini_cv.py the resolver calls
ProviderCalls == {"salary", "years_early", "years_late", "cv_answer", "any_answer"}

\* the outcome of one call of Gemini under the loaded settings
GeminiFor(cfg, g) ==
    IF cfg.GEMINI_API_KEY = "" THEN [kind |-> "off", text |-> None] ELSE g

\* the outcome of the calls of Groq under the loaded settings
GroqFor(cfg, q) ==
    [key |-> cfg.GROQ_API_KEY # "" /\ q.key, replies |-> q.replies]

\* the texts a provider function can end up with under the loaded settings
PossibleTexts(cfg) ==
    {CompletionText(GeminiFor(cfg, g), GroqFor(cfg, q)) :
        g \in {x \in GeminiOutcomes : x.kind # "off"}, q \in GroqOutcomes}

\* the resolver goes on after the provider function it is in has returned
AfterCall(pc, label, cfg, file, text) ==
    LET q == Strip(label)
        years_default == cfg.EASY_APPLY_YEARS_DEFAULT
        cv_path == cfg.CV_PATH
        use_gemini == cfg.USE_GEMINI_FOR_CV
        cv_text == load_cv_text(cv_path, file)
    IN CASE pc = "salary" ->
              AfterSalary(q, years_default, cv_path, file, use_gemini, cfg,
                          get_salary_expectation_gemini(text))
         [] pc = "years_early" ->
              AfterYearsEarly(years_default,
                              get_years_of_experience_from_cv(q, cv_text, text))
         [] pc = "years_late" ->
              AfterYearsLate(q, years_default, cv_path, file, use_gemini,
                             get_years_of_experience_from_cv(q, cv_text, text))
         [] pc = "cv_answer" ->
              AfterCvAnswer(get_answer_from_cv_with_gemini(q, cv_text, cfg, text))
         [] OTHER ->
              AfterAnyAnswer(q, years_default, get_answer_any_question_gemini(q, text))

\* applier.py:280-285, 400-405, 791-796 with cv_reader.py:178-344: the
\* resolver is called and runs up to its answer or its first provider call
resolve_question ==
    /\ res_pc = "asked"
    /\ \E cfg \in {LoadConfig(environ)} :
         \E r \in {get_answer_for_question(label_str, cfg.EASY_APPLY_YEARS_DEFAULT,
                                           cfg.CV_PATH, cv_file,
                                           cfg.USE_GEMINI_FOR_CV, cfg)} :
            res_pc' = r.pc /\ answer' = r.answer
    /\ UNCHANGED <<label_str, environ, cv_file>>
    /\ UNCHANGED <<runVars, optVars, cvVars, fillVars, stepVars>>

\* the provider function returns, the resolver runs on
provider_returns ==
    /\ res_pc \in ProviderCalls
    /\ \E cfg \in {LoadConfig(environ)} :
         \E text \in PossibleTexts(cfg) :
            \E r \in {AfterCall(res_pc, label_str, cfg, cv_file, text)} :
               res_pc' = r.pc /\ answer' = r.answer
    /\ UNCHANGED <<label_str, environ, cv_file>>
    /\ UNCHANGED <<runVars, optVars, cvVars, fillVars, stepVars>>

\* no question is being resolved
ResolverIdle ==
    /\ res_pc = "idle" /\ label_str = "" /\ environ = EnvUnset
    /\ cv_file = None /\ answer = None

\* ---------------------------------------------------- the CV text cache

MaxCalls == 4       \* calls of load_cv_text in one process

\* the file at CV_PATH: missing, a file pypdf cannot read, or a PDF and the
\* text of its pages joined by newlines
DiskStates ==
    {[exists |-> FALSE, text |-> None],
     [exists |-> TRUE, text |-> None],
     [exists |-> TRUE, text |-> Some("")],
     [exists |-> TRUE, text |-> Some("Java developer")]}

\* cv_reader.py:156-175 with the module cache: what the call returns, what
\* the cache holds after it, and whether it opened the PDF (line 167)
CachedCvText(cache, reader, cv_path, disk) ==
    IF cache # None THEN [text |-> cache[1], cache |-> cache, read |-> FALSE]
    ELSE IF cv_path = "" \/ ~disk.exists
         THEN [text |-> "", cache |-> None, read |-> FALSE]
    ELSE IF ~reader THEN [text |-> "", cache |-> None, read |-> FALSE]
    ELSE IF disk.text = None THEN [text |-> "", cache |-> None, read |-> TRUE]
    ELSE [text |-> disk.text[1], cache |-> disk.text, read |-> TRUE]

\* cv_reader.py:256, 268, 287, 299, 318 and test_gemini.py:42: one call of
\* load_cv_text
load_cv_text_call ==
    /\ Len(cv_calls) < MaxCalls
    /\ \E cv_path \in {"", "uploads/resume.pdf"} :
         \E r \in {CachedCvText(_cv_text_cache, PdfReader, cv_path, cv_disk)} :
            /\ _cv_text_cache' = r.cache
            /\ cv_calls' = Append(cv_calls, [text |-> r.text, read |-> r.read])
    /\ UNCHANGED <<PdfReader, cv_disk>>
    /\ UNCHANGED <<runVars, optVars, resVars, fillVars, stepVars>>

\* cv_reader.py:32-37: the module is loaded, nothing was extracted
CvIdle ==
    /\ _cv_text_cache = None
    /\ PdfReader = TRUE
    /\ cv_disk = [exists |-> FALSE, text |-> None]
    /\ cv_calls = <<>>

\* ------------------------------------------------- the fill pass of a step

MaxControls == 2    \* controls of one wizard step

\* A control of the step as the locators of _fill_additional_questions see
\* it: its kind, the text of its label or question, whether the element is
\* marked required (required, aria-required, an is-required class), whether
\* its inputs have a name, the value typed or the text of the selected
\* <option>, the labels of its options, and the labels of the checked ones.
\*   input   input[type=text|number], textarea
\*   select  <select>
\*   consent a single input[type=checkbox]
\*   group   fieldset[data-test-checkbox-form-component] of selectable options
\*   custom  a block of [data-test-text-selectable-option] with radio inputs
\*   radio   a group of native input[type=radio]
Control(kind, question, marked, named, value, options, selection) ==
    [kind |-> kind, question |-> question, marked |-> marked, named |-> named,
     value |-> value, options |-> options, selection |-> selection,
     type |-> "", maxlength |-> 0, resolved |-> None]

\* An input[type=text] ("text"), input[type=number] ("number") or textarea
\* ("textarea"): its maxlength attribute or the largest number of its helper
\* text (0: it has neither), and what get_answer_for_question, then
\* get_answer_any_question_gemini, return for its label (None: nothing)
TextControl(type, question, marked, value, maxlength, resolved) ==
    [Control("input", question, marked, TRUE, value, <<>>, {}) EXCEPT
        !.type = type, !.maxlength = maxlength, !.resolved = resolved]

\* the controls a step is made of
FormControls ==
    {TextControl("text", "First name*", FALSE, "", 0, Some("Ada")),
     TextControl("text", "First name*", FALSE, "Ada", 0, Some("Ada")),
     TextControl("text", "Website", FALSE, "", 0, Some("N/A")),
     TextControl("textarea", "Cover letter", TRUE, "", 50, None),
     TextControl("textarea", "Cover letter", TRUE, "", 3, None),
     TextControl("text", "Headline*", FALSE, "", 12, Some("N/A")),
     TextControl("number", "Years of experience with Java*", FALSE, "", 0, Some("4.0")),
     TextControl("text", "backend*", FALSE, "", 0, Some("Yes")),
     Control("select", "Work authorization", TRUE, TRUE, "Select an option",
             <<"Select an option", "Yes", "No">>, {}),
     Control("select", "Work authorization", TRUE, TRUE, "No",
             <<"Select an option", "Yes", "No">>, {}),
     Control("consent", "I agree to the privacy policy", FALSE, TRUE, "",
             <<"I agree">>, {}),
     Control("group", "How did you hear about this role?", TRUE, TRUE, "",
             <<"Other", "LinkedIn">>, {}),
     Control("group", "How did you hear about this role?", TRUE, TRUE, "",
             <<"Other", "LinkedIn">>, {"Other"}),
     Control("custom", "Do you have the right to work in Canada?*", FALSE, TRUE, "",
             <<"Yes", "No">>, {}),
     Control("custom", "Do you have the right to work in Canada?*", FALSE, TRUE, "",
             <<"Yes", "No">>, {"No"}),
     Control("custom", "Are you located in Montreal?*", FALSE, TRUE, "",
             <<"No", "I am open to relocation">>, {}),
     Control("custom", "Do you consent to a background check?", FALSE, TRUE, "",
             <<"No", "Non">>, {"No"}),
     Control("radio", "Are you comfortable working in a hybrid setting?*", FALSE, TRUE, "",
             <<"Yes", "No">>, {"No"}),
     Control("radio", "Are you comfortable working in a hybrid setting?*", FALSE, FALSE, "",
             <<"Yes", "No">>, {"No"}),
     Control("radio", "Are you comfortable working in a hybrid setting?*", FALSE, TRUE, "",
             <<"Yes", "No">>, {}),
     Control("radio", "What is your level of English?*", FALSE, TRUE, "",
             <<"Beginner", "Advanced">>, {}),
     Control("select", "Country", FALSE, TRUE, "Select an option",
             <<"Select an option", "Canada">>, {}),
     Control("custom", "Do you have a driving licence?", FALSE, TRUE, "",
             <<"Yes", "No">>, {}),
     Control("radio", "Have you worked for us before?", FALSE, TRUE, "",
             <<"Yes", "No">>, {})}

\* variant: every control is taken as required
AlwaysRequired(c) == TRUE

\* applier.py:249, 511, 713: the element is marked, or the text holds a "*"
IsRequired(c) == c.marked \/ Contains(c.question, "*")

\* one loop of the pass: every control is left as it is or changed to one of
\* the outcomes Out gives for it
EachControl(Out(_)) ==
    \E g \in [DOMAIN form -> UNION {Out(form[i]) : i \in DOMAIN form}] :
       /\ \A i \in DOMAIN form : g[i] \in Out(form[i])
       /\ form' = g

\* applier.py:11
TEXT_FALLBACK == "none"

\* applier.py:289
RatingLabels ==
    {"frontend", "backend", "microservice", "microservices", "api", "database",
     "devops", "fullstack", "mobile", "cloud", "security", "testing", "data"}

\* re.match(r"^-?\d+(\.\d+)?$", s)
IsDecimalText(s) ==
    LET u == IF StartsWith(s, "-") THEN DropFirst(s, 1) ELSE s
        dots == {i \in 1..Len(u) : CharAt(u, i) = "."}
    IN IF dots = {} THEN AllDigits(u)
       ELSE /\ Cardinality(dots) = 1
            /\ AllDigits(SubSeq(u, 1, Smallest(dots) - 1))
            /\ AllDigits(DropFirst(u, Smallest(dots)))

\* the digits before the point of a text IsDecimalText accepts
IntegerPart(s) ==
    LET u == IF StartsWith(s, "-") THEN DropFirst(s, 1) ELSE s
        dots == {i \in 1..Len(u) : CharAt(u, i) = "."}
    IN IF dots = {} THEN u ELSE SubSeq(u, 1, Smallest(dots) - 1)

\* float(s) < 0.1 for a text IsDecimalText accepts
BelowTenth(s) ==
    LET u == IF StartsWith(s, "-") THEN DropFirst(s, 1) ELSE s
        frac == DropFirst(u, Len(IntegerPart(s)) + 1)
    IN \/ StartsWith(s, "-")
       \/ DigitsToInt(IntegerPart(s)) = 0 /\ (frac = "" \/ CharAt(frac, 1) = "0")

\* str(int(float(s))) for a text IsDecimalText accepts
WholeNumberText(s) ==
    LET n == DigitsToInt(IntegerPart(s))
    IN IF StartsWith(s, "-") /\ n > 0 THEN "-" \o IntToStr(n) ELSE IntToStr(n)

\* s * n
RECURSIVE RepeatText(_, _)
RepeatText(s, n) == IF n <= 0 THEN "" ELSE s \o RepeatText(s, n - 1)

\* applier.py:280-348: text_val, the text the loop passes to fill()
InputText(c) ==
    LET label_lower == Lower(Strip(c.question))
        tag == IF c.type = "textarea" THEN "textarea" ELSE "input"
        is_number == c.type = "number"
        wants_decimal == AnyIn(RatingLabels, label_lower)
        wants_whole_number ==
            Contains(label_lower, "years") /\ Contains(label_lower, "experience")
            /\ ~wants_decimal
        rating == IF Contains(label_lower, "frontend") \/ Contains(label_lower, "backend")
                  THEN "8.0" ELSE "5.0"
        answered ==
            IF \/ c.resolved = None
               \/ (Strip(c.resolved[1]) \in {"", "N/A"} /\ tag # "input" /\ ~is_number)
            THEN IF wants_decimal THEN rating
                 ELSE IF is_number THEN (IF wants_whole_number THEN "3" ELSE "0")
                 ELSE TEXT_FALLBACK
            ELSE c.resolved[1]
        stripped == IF Strip(answered) = "" /\ ~is_number THEN TEXT_FALLBACK
                    ELSE Strip(answered)
        decimal ==
            IF ~wants_decimal THEN stripped
            ELSE IF Lower(stripped) \in {"yes", "no", "oui", "non", "n/a", ""} THEN rating
            ELSE IF ~IsDecimalText(stripped) THEN rating
            ELSE IF BelowTenth(stripped) THEN rating
            ELSE stripped
        whole == IF wants_whole_number /\ IsDecimalText(decimal)
                 THEN WholeNumberText(decimal) ELSE decimal
        max_len == c.maxlength
    IN IF /\ (tag = "textarea" \/ ~is_number)
          /\ max_len > 0 /\ Len(whole) < max_len /\ Lower(whole) = TEXT_FALLBACK
       THEN Truncate(RepeatText(TEXT_FALLBACK \o " ",
                                max_len \div (Len(TEXT_FALLBACK) + 1) + 1), max_len)
       ELSE whole

\* applier.py:349: what the field holds after fill(text_val): the text, or
\* the text cut to the maxlength attribute where the browser enforces it
Written(c, text_val) ==
    IF c.maxlength > 0 THEN {text_val, Truncate(text_val, c.maxlength)} ELSE {text_val}

\* applier.py:265-359: a required input with a blank value is filled
InputOutcomes(c) ==
    IF c.kind = "input" /\ IsRequired(c) /\ Strip(c.value) = ""
    THEN {[c EXCEPT !.value = text] : text \in Written(c, InputText(c))}
    ELSE {c}

\* applier.py:379, 391: the placeholder texts of a <select>
IsPlaceholderOption(text) ==
    Lower(Strip(text)) \in {"select an option", "choose", ""}

\* applier.py:369-444: a required <select> with no real option selected gets
\* one of its real options (the match, the API's choice or a random one), or
\* none when every select_option fails
SelectOutcomes(c) ==
    LET real_options == {c.options[k] : k \in {j \in DOMAIN c.options :
                                                  ~IsPlaceholderOption(c.options[j])}}
    IN IF c.kind = "select" /\ IsRequired(c) /\ IsPlaceholderOption(c.value)
       THEN {c} \cup {[c EXCEPT !.value = o] : o \in real_options}
       ELSE {c}

\* applier.py:447
ConsentKeywords ==
    {"consent", "i consent", "agree", "privacy", "declare", "read and understand",
     "approve", "accept", "authorize"}

\* applier.py:448-471: an unchecked checkbox whose text is about consent is
\* checked
ConsentOutcomes(c) ==
    IF c.kind = "consent" /\ c.selection = {} /\ c.question # ""
       /\ AnyIn(ConsentKeywords, Lower(c.question))
    THEN {[c EXCEPT !.selection = {c.options[1]}]}
    ELSE {c}

\* applier.py:473-503: a required checkbox group with nothing checked gets
\* the first option that names LinkedIn, or a random one
GroupOutcomes(c) ==
    LET preferred == {k \in DOMAIN c.options : Contains(Lower(c.options[k]), "linkedin")}
    IN IF c.kind = "group" /\ c.marked /\ c.selection = {} /\ c.options # <<>>
       THEN IF preferred # {}
            THEN {[c EXCEPT !.selection =
                        {c.options[CHOOSE k \in preferred : \A j \in preferred : k <= j]}]}
            ELSE {[c EXCEPT !.selection = {o}] : o \in {c.options[k] : k \in DOMAIN c.options}}
       ELSE {c}

\* applier.py:509: innerText of the block, the question and the option labels
RECURSIVE JoinLines(_)
JoinLines(labels) ==
    IF labels = <<>> THEN "" ELSE "\n" \o Head(labels) \o JoinLines(Tail(labels))

BlockText(c) == Truncate(Strip(c.question \o JoinLines(c.options)), 250)

\* the first label of all_labels that satisfies P, None if there is none
FirstLabel(all_labels, P(_)) ==
    LET hits == {k \in DOMAIN all_labels : P(all_labels[k])}
    IN IF hits = {} THEN None
       ELSE Some(all_labels[CHOOSE k \in hits : \A j \in hits : k <= j])

\* applier.py:547-578: target_value, the option the block is set to
CustomTargetValue(c) ==
    LET q_lower == Lower(BlockText(c))
        all_labels == c.options
        Relocation(lbl) == AnyIn({"relocat", "déménager", "open to"}, Lower(lbl))
        Affirmative(lbl) ==
            LET ll == Strip(Lower(lbl))
            IN (Contains(ll, "yes") \/ Contains(ll, "oui"))
               /\ ll # "no" /\ ~StartsWith(ll, "no/")
        is_location_question ==
            AnyIn({"montreal", "quebec", "situé", "eligible", "déménager", "relocat",
                   "relocation", "province", "full time", "located", "work full time"},
                  q_lower)
        relocate == IF is_location_question THEN FirstLabel(all_labels, Relocation)
                    ELSE None
        target_label ==
            IF relocate # None THEN relocate[1]
            ELSE IF FirstLabel(all_labels, Affirmative) # None
                 THEN FirstLabel(all_labels, Affirmative)[1]
            ELSE all_labels[1]
        answer_str ==
            IF /\ Contains(q_lower, "right to work")
               /\ (Contains(q_lower, "canada") \/ Contains(q_lower, "country"))
               /\ ~Contains(q_lower, "sponsorship")
            THEN "No"
            ELSE IF /\ Contains(q_lower, "sponsorship") /\ Contains(q_lower, "visa")
                    /\ (Contains(q_lower, "require") \/ Contains(q_lower, "need"))
                 THEN "Yes"
            ELSE IF AnyIn({"criminal background", "background check",
                           "employment verification", "reference check",
                           "education check", "agree to partake"}, q_lower)
                 THEN "Yes"
            ELSE Strip(target_label)
    IN IF target_label \notin {"Yes", "No"} THEN target_label
       ELSE IF \/ Lower(answer_str) \in {"yes", "oui"}
               \/ Contains(Lower(target_label), "yes")
               \/ Contains(Lower(target_label), "oui")
            THEN "Yes"
       ELSE "No"

\* applier.py:579-685: the option the clicks end on, None if no option fits
CustomClicked(c, target_value) ==
    LET v == Lower(target_value)
        ByLabel(t) == t # "" /\ (t = target_value \/ Contains(t, target_value)
                                \/ Contains(target_value, t))
        ByValue(t) == t = target_value
        Loose(t) == t # "" /\ (\/ t = target_value
                               \/ Contains(Lower(t), v) \/ Contains(v, Lower(t))
                               \/ (v = "yes" /\ AnyIn({"yes", "oui"}, Lower(t)))
                               \/ (v = "no" /\ AnyIn({"no", "non"}, Lower(t))))
    IN IF target_value \notin {"Yes", "No"} THEN FirstLabel(c.options, ByLabel)
       ELSE IF FirstLabel(c.options, ByValue) # None THEN FirstLabel(c.options, ByValue)
       ELSE FirstLabel(c.options, Loose)

\* applier.py:547-685: the block is set to its target: a radio replaces the
\* selection, a checkbox is added to it
CustomFilled(c) ==
    LET clicked == CustomClicked(c, CustomTargetValue(c))
    IN IF clicked = None THEN c
       ELSE IF c.kind = "custom" THEN [c EXCEPT !.selection = {clicked[1]}]
       ELSE [c EXCEPT !.selection = @ \cup {clicked[1]}]

\* applier.py:533-541: the blocks of selectable options the loop handles: the
\* required ones, one per question text (seen_questions)
CustomHandled(f, i) ==
    /\ f[i].kind \in {"custom", "group"}
    /\ f[i].options # <<>> /\ BlockText(f[i]) # ""
    /\ IsRequired(f[i])
    /\ ~\E j \in 1..(i - 1) :
          /\ f[j].kind \in {"custom", "group"} /\ f[j].options # <<>>
          /\ IsRequired(f[j])
          /\ Truncate(BlockText(f[j]), 100) = Truncate(BlockText(f[i]), 100)

\* applier.py:791-804: what the radio loop takes as the answer of a question:
\* what get_answer_for_question or get_answer_any_question_gemini returned,
\* None when both returned nothing
RadioAnswers == {None, Some("Yes"), Some("No"), Some("oui"), Some("3"), Some("N/A")}

\* applier.py:722-726, 754-757: the targeted overrides of the radio loop
RadioIsWorkAuth(combined_lower) ==
    \/ /\ Contains(combined_lower, "right to work")
       /\ (Contains(combined_lower, "canada") \/ Contains(combined_lower, "country"))
       /\ ~Contains(combined_lower, "sponsorship")
    \/ /\ Contains(combined_lower, "authorized") /\ Contains(combined_lower, "work")
       /\ (Contains(combined_lower, "canada") \/ Contains(combined_lower, "country"))
    \/ Contains(combined_lower, "autorisé") /\ Contains(combined_lower, "travailler")
    \/ Contains(combined_lower, "légalement") /\ Contains(combined_lower, "travailler")

RadioIsSponsorship(combined_lower) ==
    \/ /\ Contains(combined_lower, "sponsorship")
       /\ AnyIn({"visa", "work", "employment"}, combined_lower)
       /\ AnyIn({"require", "need", "future", "aurez"}, combined_lower)
    \/ /\ Contains(combined_lower, "parrainage")
       /\ AnyIn({"immigration", "autorisation", "travail"}, combined_lower)

\* applier.py:731, 761: want_yes
WantYes(setting, default) ==
    Lower(Strip(Or(setting, default))) \in {"yes", "oui", "1", "true"}

\* applier.py:733-752, 811-829: the radio the selectors (named group) or the
\* script (no name) find for target_value, None when the group has none.  An
\* option's data-test attribute and its value are its label.
YesNoRadio(c, target_value) ==
    LET numVal == IF target_value = "Yes" THEN "1" ELSE "0"
        tries == IF c.named
                 THEN <<target_value, numVal, Lower(target_value)>>
                 ELSE <<target_value, numVal>>
        found == {j \in DOMAIN tries : \E k \in DOMAIN c.options : c.options[k] = tries[j]}
    IN IF found = {} THEN None ELSE Some(tries[Smallest(found)])

\* a radio is checked: in a group with a name it replaces the selection
Checked(c, label) ==
    IF c.named THEN [c EXCEPT !.selection = {label}]
    ELSE [c EXCEPT !.selection = @ \cup {label}]

\* applier.py:848-852: the radios the loop reaches (the first one of a group
\* with a name, every one of a group without) whose label fits a text answer
TextRadios(c, answer_lower) ==
    LET reached == IF c.named THEN {1} ELSE DOMAIN c.options
    IN {c.options[k] : k \in {j \in reached \cap DOMAIN c.options :
            LET opt_label_lower == Lower(Strip(c.options[j]))
            IN \/ Contains(opt_label_lower, answer_lower)
               \/ opt_label_lower # "" /\ Contains(answer_lower, opt_label_lower)}}

\* applier.py:718-852: the group after the loop has handled it with the answer radio_answer.
\* A check() on a radio that is there succeeds.
RadioFilled(c, radio_answer, cfg) ==
    LET combined_lower == Lower(BlockText(c)) \o " " \o Lower(c.question)
        override ==
            IF RadioIsWorkAuth(combined_lower)
            THEN Some(IF WantYes(cfg.WORK_AUTHORIZATION_ANSWER, "No") THEN "Yes" ELSE "No")
            ELSE IF RadioIsSponsorship(combined_lower)
            THEN Some(IF WantYes(cfg.WORK_NEED_SPONSORSHIP_ANSWER, "Yes") THEN "Yes" ELSE "No")
            ELSE None
        answer_lower == Lower(Strip(IF radio_answer = None THEN "Yes" ELSE radio_answer[1]))
        target_value ==
            IF override # None THEN override
            ELSE IF answer_lower \in {"yes", "oui"} THEN Some("Yes")
            ELSE IF answer_lower \in {"no", "non"} THEN Some("No")
            ELSE None
    IN IF target_value # None
       THEN IF YesNoRadio(c, target_value[1]) = None THEN c
            ELSE Checked(c, YesNoRadio(c, target_value[1])[1])
       ELSE IF c.named
            THEN IF TextRadios(c, answer_lower) = {} THEN c
                 ELSE [c EXCEPT !.selection = TextRadios(c, answer_lower)]
       ELSE [c EXCEPT !.selection = @ \cup TextRadios(c, answer_lower)]

\* applier.py:699-856: the loop handles a required group of radios; a group
\* whose inputs have a name is skipped when one of them is checked
RadioOutcomes(c) ==
    IF /\ c.kind \in {"radio", "custom"}
       /\ IsRequired(c)
       /\ ~(c.named /\ c.selection # {})
    THEN {RadioFilled(c, a, LoadConfig(environ)) : a \in RadioAnswers}
    ELSE {c}

\* applier.py:902: the pass is called on the step shown
fill_start ==
    /\ fill_pc = "step"
    /\ fill_pc' = "inputs"
    /\ form_before' = form
    /\ UNCHANGED form
    /\ UNCHANGED <<runVars, optVars, resVars, cvVars, stepVars>>

\* applier.py:264-365
fill_inputs ==
    /\ fill_pc = "inputs"
    /\ fill_pc' = "selects"
    /\ EachControl(InputOutcomes)
    /\ UNCHANGED form_before
    /\ UNCHANGED <<runVars, optVars, resVars, cvVars, stepVars>>

\* applier.py:367-444
fill_selects ==
    /\ fill_pc = "selects"
    /\ fill_pc' = "consent"
    /\ EachControl(SelectOutcomes)
    /\ UNCHANGED form_before
    /\ UNCHANGED <<runVars, optVars, resVars, cvVars, stepVars>>

\* applier.py:446-471
check_consent ==
    /\ fill_pc = "consent"
    /\ fill_pc' = "groups"
    /\ EachControl(ConsentOutcomes)
    /\ UNCHANGED form_before
    /\ UNCHANGED <<runVars, optVars, resVars, cvVars, stepVars>>

\* applier.py:473-503
fill_checkbox_groups ==
    /\ fill_pc = "groups"
    /\ fill_pc' = "custom"
    /\ EachControl(GroupOutcomes)
    /\ UNCHANGED form_before
    /\ UNCHANGED <<runVars, optVars, resVars, cvVars, stepVars>>

\* applier.py:505-680
fill_custom_choices ==
    /\ fill_pc = "custom"
    /\ fill_pc' = "radios"
    /\ form' = [i \in DOMAIN form |->
                  IF CustomHandled(form, i) THEN CustomFilled(form[i]) ELSE form[i]]
    /\ UNCHANGED form_before
    /\ UNCHANGED <<runVars, optVars, resVars, cvVars, stepVars>>

\* applier.py:682-856
fill_radios ==
    /\ fill_pc = "radios"
    /\ fill_pc' = "done"
    /\ EachControl(RadioOutcomes)
    /\ UNCHANGED form_before
    /\ UNCHANGED <<runVars, optVars, resVars, cvVars, stepVars>>

\* no step is being filled
FillIdle == fill_pc = "idle" /\ form = <<>> /\ form_before = <<>>

\* ------------------------------------------------------- option picking

\* variant: the completion itself is returned
PickChosen(options, text) ==
    IF Falsy(text) THEN Some(options[1])
    ELSE Some(StripChars(Strip(text[1]), {"\"", "'"}))

\* gemini_cv.py:111
OptionMatches(o, chosen) ==
    \/ Lower(o) = Lower(chosen)
    \/ Contains(Lower(o), Lower(chosen))
    \/ Contains(Lower(chosen), Lower(o))

\* gemini_cv.py:107-113
PickOption(options, text) ==
    IF Falsy(text) THEN Some(options[1])
    ELSE LET chosen == StripChars(Strip(text[1]), {"\"", "'"})
             hits == {k \in 1..Len(options) : OptionMatches(options[k], chosen)}
         IN IF hits # {}
            THEN Some(options[CHOOSE k \in hits : \A j \in hits : k <= j])
            ELSE Some(options[1])

\* gemini_cv.py:79: [str(o).strip() for o in options if str(o).strip()]
RECURSIVE StripNonEmpty(_)
StripNonEmpty(options) ==
    IF options = <<>> THEN <<>>
    ELSE IF Strip(Head(options)) # ""
         THEN <<Strip(Head(options))>> \o StripNonEmpty(Tail(options))
         ELSE StripNonEmpty(Tail(options))

\* gemini_cv.py:73-113, text being what lines 94-106 end up with
get_answer_from_options(options, text) ==
    LET opts == StripNonEmpty(options)
    IN IF opts = <<>> THEN None ELSE PickOption(opts, text)

\* What an <option> of the dropdown can hold.
DomOptionTexts == {"A", "b", "Ab", " A", "b ", " ", "", "Choose", "Oui", "Other"}

\* applier.py:390-396: the real option texts, placeholders skipped
RECURSIVE CollectOptions(_)
CollectOptions(dom) ==
    IF dom = <<>> THEN <<>>
    ELSE LET text == Strip(Head(dom))
         IN IF text = "" \/ Lower(text) \in {"select an option", "choose", ""}
            THEN CollectOptions(Tail(dom))
            ELSE <<text>> \o CollectOptions(Tail(dom))

\* applier.py:390-398
collect_options ==
    /\ opt_pc = "dom"
    /\ option_texts' = CollectOptions(dom_options)
    /\ opt_pc' = IF option_texts' = <<>> THEN "skipped" ELSE "collected"
    /\ UNCHANGED <<dom_options, opt_text, api_choice, provider_calls, select_answer>>
    /\ UNCHANGED <<runVars, resVars, cvVars, fillVars, stepVars>>

\* The labels a dropdown can carry, and what the resolver and the any-question
\* completion (applier.py:399-406) can leave in `answer`.
SelectLabels == {"Country*", "Legal status in Canada*"}

SelectAnswers == {None, Some("a"), Some("Yes"), Some("no"), Some("zzz"), Some(" ")}

\* applier.py:408-413: the legal-status rule takes the first option it knows
LegalStatusAnswer(label_lower, options, resolved) ==
    LET known == {k \in 1..Len(options) :
                    Strip(options[k]) \in {"No status", "Other", "Open Work Visa"}}
    IN IF Contains(label_lower, "legal status") /\ Contains(label_lower, "canada")
          /\ known # {}
       THEN Some(Strip(options[CHOOSE k \in known : \A j \in known : k <= j]))
       ELSE resolved

\* applier.py:415: str(answer).strip().lower() if answer else ""
AnswerLower(a) == IF Falsy(a) THEN "" ELSE Lower(Strip(a[1]))

\* applier.py:416: the options the answer is part of, or that are part of it
SelectMatches(options, answer_lower) ==
    SelectSeq(options,
              LAMBDA o : answer_lower # ""
                         /\ (Contains(Lower(o), answer_lower)
                             \/ Contains(answer_lower, Lower(o))))

\* variant: Yes/No becomes Oui/Non without a look at the options
OuiNonUnchecked(options, answer_lower) ==
    IF answer_lower \in {"yes", "no"}
    THEN <<IF answer_lower = "yes" THEN "Oui" ELSE "Non">>
    ELSE <<>>

\* applier.py:418-425: Yes/No is looked up as Oui/Non
OuiNonMatches(options, answer_lower) ==
    IF answer_lower \in {"yes", "no"}
    THEN LET oui_non == IF answer_lower = "yes" THEN "oui" ELSE "non"
             hits == SelectSeq(options, LAMBDA o : Lower(Strip(o)) = oui_non)
         IN IF hits = <<>> THEN <<>> ELSE <<hits[1]>>
    ELSE <<>>

\* applier.py:398-425 and 433-434: the answer is matched against the options
match_answer ==
    /\ opt_pc = "collected"
    /\ \E label \in SelectLabels, resolved \in SelectAnswers :
         \E a \in {LegalStatusAnswer(Lower(Strip(label)), option_texts, resolved)} :
           \E matches \in {SelectMatches(option_texts, AnswerLower(a))} :
             \E found \in {IF matches # <<>> THEN matches
                           ELSE OuiNonMatches(option_texts, AnswerLower(a))} :
               IF found # <<>>
               THEN select_answer' = Some(found[1]) /\ opt_pc' = "matched"
               ELSE select_answer' = a /\ opt_pc' = "nomatch"
    /\ UNCHANGED <<dom_options, option_texts, opt_text, api_choice, provider_calls>>
    /\ UNCHANGED <<runVars, resVars, cvVars, fillVars, stepVars>>

\* applier.py:426-432 with gemini_cv.py:73-113: no option matched, the API
\* picks, or random.choice where it returned nothing
pick_option ==
    /\ opt_pc = "nomatch"
    /\ \E gemini \in GeminiOutcomes, groq \in GroqOutcomes :
         \E text \in {CompletionText(gemini, groq)} :
           \E choice \in {get_answer_from_options(option_texts, text)} :
             /\ api_choice' = choice
             /\ opt_text' = text
             /\ provider_calls' = CallTrace(gemini, groq)
             /\ IF Falsy(choice)
                THEN \E k \in 1..Len(option_texts) :
                        select_answer' = Some(option_texts[k])
                ELSE select_answer' = choice
    /\ opt_pc' = "picked"
    /\ UNCHANGED <<dom_options, option_texts>>
    /\ UNCHANGED <<runVars, resVars, cvVars, fillVars, stepVars>>

\* no dropdown is being filled
OptionsIdle ==
    /\ opt_pc = "idle" /\ dom_options = <<>> /\ option_texts = <<>>
    /\ opt_text = None /\ api_choice = None /\ provider_calls = <<>>
    /\ select_answer = None

\* ------------------------------------------ the initial-form mode's loop

max_steps == 15     \* applier.py:149

\* fill_easy_apply_form is not called yet
FormIdle ==
    [pc |-> "idle", step |-> 0, filled_any |-> FALSE, steps |-> 0,
     ret |-> "none"]

StepsIdle == easy_form = FormIdle

\* fill_easy_apply_form returns `result`
FormReturns(f, result) == [f EXCEPT !.pc = "returned", !.ret = result]

\* applier.py:150: the for-loop takes its next step or is exhausted (215)
NextStep(f) ==
    IF f.step + 1 < max_steps
    THEN [f EXCEPT !.pc = "fields", !.step = @ + 1]
    ELSE FormReturns(f, "False")

\* applier.py:141-146: wait for the modal
form_modal ==
    /\ easy_form.pc = "modal"
    /\ \E visible \in BOOLEAN :
         easy_form' = IF visible THEN [easy_form EXCEPT !.pc = "fields", !.step = 0]
                                 ELSE FormReturns(easy_form, "False")
    /\ UNCHANGED <<runVars, optVars, resVars, cvVars, fillVars>>

\* applier.py:150-200: one step's fields are matched and filled; listing the
\* fields can raise (152), a field that fails is skipped
form_fields ==
    /\ easy_form.pc = "fields"
    /\ \E what \in {"raise", "filled", "nothing"} :
         easy_form' =
           IF what = "raise"
           THEN [easy_form EXCEPT !.pc = "raised", !.steps = @ + 1]
           ELSE [easy_form EXCEPT !.pc = "buttons", !.steps = @ + 1,
                                  !.filled_any = (what = "filled")]
    /\ UNCHANGED <<runVars, optVars, resVars, cvVars, fillVars>>

\* applier.py:202-215: submit, else next, else stop when nothing was filled
\* after the first step
form_buttons ==
    /\ easy_form.pc = "buttons"
    /\ \E what \in {"submit", "next", "none", "raise"} :
         easy_form' =
           CASE what = "submit" -> FormReturns(easy_form, "True")
             [] what = "next"   -> NextStep([easy_form EXCEPT !.filled_any = TRUE])
             [] what = "none"   ->
                  IF ~easy_form.filled_any /\ easy_form.step > 0
                  THEN FormReturns(easy_form, "False")
                  ELSE NextStep(easy_form)
             [] OTHER           -> [easy_form EXCEPT !.pc = "raised"]
    /\ UNCHANGED <<runVars, optVars, resVars, cvVars, fillVars>>

\* applier.py:1062-1065: run_easy_apply_flow catches what the form raised
form_raised ==
    /\ easy_form.pc = "raised"
    /\ easy_form' = FormReturns(easy_form, "False")
    /\ UNCHANGED <<runVars, optVars, resVars, cvVars, fillVars>>

\* the run is not started
RunIdle ==
    /\ running = FALSE
    /\ applied_count = 0
    /\ error = "None"
    /\ stop_event = 0
    /\ eventSet = [t \in Runs |-> FALSE]
    /\ overrides_exists = FALSE
    /\ nTasks = 0
    /\ task = [t \in Runs |-> NoTask]
    /\ cbPending = {}
    /\ pinned = 0

\* ------------------------------------------------------- the specification

\* web_app.py:16-22: the module is loaded, no run was started
Init ==
    /\ RunIdle
    /\ env \in [resume : BOOLEAN, email : BOOLEAN]
    /\ OptionsIdle
    /\ ResolverIdle
    /\ CvIdle
    /\ FillIdle
    /\ StepsIdle

TaskNext(t) ==
    \/ main_start(t)
    \/ create_context(t)
    \/ navigate(t)
    \/ job_count(t)
    \/ job_count_again(t)
    \/ sleep_no_jobs(t)
    \/ select_job(t)
    \/ limit_check_1(t)
    \/ click_easy_apply(t)
    \/ close_after_no_button(t)
    \/ limit_check_2(t)
    \/ close_on_limit(t)
    \/ wiz_modal(t)
    \/ wiz_submit_first(t)
    \/ wiz_next_first(t)
    \/ wiz_fill(t)
    \/ wiz_close_invalid(t)
    \/ wiz_advance(t)
    \/ limit_check_3(t)
    \/ close_not_applied(t)
    \/ close_after_exception(t)
    \/ wait_modal_closed(t)
    \/ scroll_more(t)
    \/ finish(t)
    \/ done_callback(t)

ApiNext == api_start \/ api_stop \/ api_status \/ api_setup_post

Next == ApiNext \/ \E t \in Runs : TaskNext(t)

vars == <<runVars, optVars, resVars, cvVars, fillVars, stepVars>>

Spec == Init /\ [][Next]_vars

\* one dropdown of a wizard step, from its <option> elements to the choice
InitOptions ==
    /\ RunIdle
    /\ env = [resume |-> TRUE, email |-> TRUE]
    /\ opt_pc = "dom"
    /\ dom_options \in UNION {[1..n -> DomOptionTexts] : n \in 0..MaxOptions}
    /\ option_texts = <<>>
    /\ opt_text = None
    /\ api_choice = None
    /\ provider_calls = <<>>
    /\ select_answer = None
    /\ ResolverIdle
    /\ CvIdle
    /\ FillIdle
    /\ StepsIdle

NextOptions == collect_options \/ match_answer \/ pick_option

SpecOptions == InitOptions /\ [][NextOptions]_vars

\* one question of a wizard step, from its label to its answer
InitResolver ==
    /\ RunIdle
    /\ env = [resume |-> TRUE, email |-> TRUE]
    /\ OptionsIdle
    /\ res_pc = "asked"
    /\ label_str \in Labels
    /\ environ \in Environments
    /\ cv_file \in CvFiles
    /\ answer = None
    /\ CvIdle
    /\ FillIdle
    /\ StepsIdle

NextResolver == resolve_question \/ provider_returns

SpecResolver == InitResolver /\ [][NextResolver]_vars

\* the calls of load_cv_text of one process, and the uploads between them
InitCv ==
    /\ RunIdle
    /\ env = [resume |-> TRUE, email |-> TRUE]
    /\ OptionsIdle
    /\ ResolverIdle
    /\ _cv_text_cache = None
    /\ PdfReader \in BOOLEAN
    /\ cv_disk \in DiskStates
    /\ cv_calls = <<>>
    /\ FillIdle
    /\ StepsIdle

NextCv == load_cv_text_call \/ api_setup_post

SpecCv == InitCv /\ [][NextCv]_vars

\* one fill pass over one wizard step
InitFill ==
    /\ RunIdle
    /\ env = [resume |-> TRUE, email |-> TRUE]
    /\ OptionsIdle
    /\ ResolverIdle
    /\ CvIdle
    /\ fill_pc = "step"
    /\ form \in UNION {[1..n -> FormControls] : n \in 1..MaxControls}
    /\ form_before = <<>>
    /\ StepsIdle

NextFill ==
    \/ fill_start
    \/ fill_inputs
    \/ fill_selects
    \/ check_consent
    \/ fill_checkbox_groups
    \/ fill_custom_choices
    \/ fill_radios

SpecFill == InitFill /\ [][NextFill]_vars

\* main.py:89 calls the wizard for the first job of a run; run_easy_apply_flow
\* calls the initial-form mode
InitSteps ==
    /\ running = TRUE
    /\ applied_count = 0
    /\ error = "None"
    /\ stop_event = 1
    /\ eventSet = [t \in Runs |-> FALSE]
    /\ overrides_exists = FALSE
    /\ env = [resume |-> TRUE, email |-> TRUE]
    /\ nTasks = 1
    /\ task = [t \in Runs |->
                 IF t = 1
                 THEN [CallSelect([NoTask EXCEPT !.round_no = 1, !.count = 1], 0)
                         EXCEPT !.pc = "wizModal"]
                 ELSE NoTask]
    /\ cbPending = {}
    /\ pinned = 0
    /\ OptionsIdle
    /\ ResolverIdle
    /\ CvIdle
    /\ FillIdle
    /\ easy_form = [FormIdle EXCEPT !.pc = "modal"]

\* fill_contact_and_click_suivant, from its call to its return
WizardNext(t) ==
    \/ wiz_modal(t)
    \/ wiz_submit_first(t)
    \/ wiz_next_first(t)
    \/ wiz_fill(t)
    \/ wiz_close_invalid(t)
    \/ wiz_advance(t)

\* fill_easy_apply_form under run_easy_apply_flow, from its call to its return
FormNext == form_modal \/ form_fields \/ form_buttons \/ form_raised

NextSteps == WizardNext(1) \/ FormNext

\* every await of the two loops returns or raises (each has a timeout)
SpecSteps ==
    /\ InitSteps /\ [][NextSteps]_vars
    /\ WF_vars(WizardNext(1)) /\ WF_vars(FormNext)

\* the awaits of a run return: asyncio resumes the task, and runs the done
\* callback it scheduled
FairSpec == Spec /\ \A t \in Runs : WF_vars(TaskNext(t))

\* ------------------------------------------------------------ properties

C2_StartGuard ==
    /\ [][nTasks' # nTasks =>
            ~running /\ (overrides_exists \/ (env.resume /\ env.email))]_vars
    /\ [][(api_start /\ (running \/ ~(overrides_exists \/ (env.resume /\ env.email))))
            => UNCHANGED <<running, applied_count, error, nTasks, task>>]_vars

\* a run was started on the strength of the overrides file alone
C2_Witness ==
    /\ nTasks = 1 /\ task[1].pc = "created" /\ running
    /\ overrides_exists /\ ~env.email

\* C3: once the cancellation signal of a run is set, that run makes no
\* further call of select_job_at_index.
C3_NoSelectAfterStop ==
    [][\A t \in Runs :
          (Active(t) /\ eventSet[t]) => task'[t].selects <= task[t].selects]_vars

\* C4: after an exception in a job the run is in the per-job handler or past
\* it: the modal close was attempted, applied_count is what it was when the
\* job was selected, running stays true and error unset; and unless stop was
\* requested the loop goes on to job i+1.
C4_FailureIsolation ==
    /\ [](\A t \in Runs : task[t].jobEvent = "exception" =>
            /\ task[t].pc \in {"closeExc", "waitClosed", "closing"}
            /\ task[t].pc # "closeExc" => task[t].closes >= 1
            /\ task[t].exit \in {"none", "ret0"}
            /\ applied_count = task[t].countAtSelect
            /\ running /\ error = "None")
    /\ [][\A t \in Runs :
            (/\ task[t].jobEvent = "exception" /\ task[t].pc = "waitClosed"
             /\ ~eventSet[t] /\ task[t].i + 1 < task[t].count
             /\ task'[t] # task[t])
            => (task'[t].pc = "select" /\ task'[t].i = task[t].i + 1)]_vars

\* the wizard raised in the second job after the first was applied to, and
\* the modal close was attempted
C4_Witness ==
    \E t \in Runs :
        /\ task[t].jobEvent = "exception" /\ task[t].pc = "waitClosed"
        /\ task[t].i = 1 /\ task[t].closes = 1 /\ applied_count = 1

\* C5: after a validation error no submit, verify or next is clicked for
\* that application, the modal is closed, the wizard reports not applied,
\* applied_count is not incremented; and unless stop was requested the
\* loop goes on to the next posting.
C5_ValidationAbandons ==
    /\ [](\A t \in Runs : task[t].jobEvent = "validation" =>
            /\ ~task[t].lateClick /\ ~task[t].submitted /\ ~task[t].applied
            /\ task[t].pc \in {"wizClose", "limit3", "closeB", "closeLimit",
                               "waitClosed", "closing"}
            /\ task[t].pc # "wizClose" => task[t].closes >= 1
            /\ applied_count = task[t].countAtSelect)
    /\ [][\A t \in Runs :
            (/\ task[t].jobEvent = "validation" /\ task[t].pc = "waitClosed"
             /\ ~eventSet[t] /\ task[t].i + 1 < task[t].count
             /\ task'[t] # task[t])
            => (task'[t].pc = "select" /\ task'[t].i = task[t].i + 1)]_vars

\* a validation error on the third wizard pass of the second job, after which
\* the modal was closed twice (by the wizard, then by the run loop)
C5_Witness ==
    \E t \in Runs :
        /\ task[t].jobEvent = "validation" /\ task[t].pc = "waitClosed"
        /\ task[t].step = 2 /\ task[t].i = 1 /\ task[t].closes = 2
        /\ applied_count = 1

\* C6: once the daily-limit phrase was seen the run selects no further job,
\* applied_count keeps the value it had, and the run ends: it returns 0
\* with running false and error unset.
C6_DailyLimitStops ==
    /\ [](\A t \in Runs : task[t].limitHit =>
            /\ task[t].pc \in {"closeLimit", "closing", "done"}
            /\ applied_count = task[t].countAtLimit
            /\ Active(t) => (running /\ error = "None")
            /\ task[t].pc = "done" => (task[t].ret = 0 /\ ~running))
    /\ [][\A t \in Runs :
            (task[t].limitHit /\ task[t].pc = "closing" /\ task'[t] # task[t])
            => (task'[t].pc = "done" /\ ~running' /\ error' = "None"
                /\ applied_count' = applied_count)]_vars
    /\ \A t \in Runs :
         (task[t].limitHit /\ Active(t)) ~>
            (task[t].pc = "done" /\ task[t].ret = 0 /\ ~running)

\* the limit was seen after one application and the run has ended
C6_Witness ==
    \E t \in Runs :
        /\ task[t].limitHit /\ task[t].pc = "done" /\ task[t].countAtLimit = 1
        /\ applied_count = 1 /\ ~running /\ error = "None"

\* C7: a run that ended because navigation failed left a non-empty error
\* in Run State, with running false.
C7_NavigationFailureSurfaced ==
    \A t \in Runs :
        (task[t].pc = "done" /\ task[t].navFailed) =>
            (error # "None" /\ ~running)

\* C8: for a non-empty label and any configuration, what
\* get_answer_for_question returns is a text value that is not empty.
C8_NeverEmpty ==
    (res_pc = "answered" /\ label_str # "") =>
        (answer # None /\ answer[1] # "")

\* C9: when the work-authorization override answers the question, the
\* resolver returns that answer and calls no provider, whatever other rule
\* the label matches and whatever the CV holds; the label of Scenario C
\* with the authorization answer configured "No" resolves to "No".
C9_OverrideFirst ==
    LET cfg == LoadConfig(environ)
        work_ans == get_work_authorization_answer(Strip(label_str), cfg)
    IN /\ (res_pc # "idle" /\ work_ans # None) =>
             /\ res_pc \in {"asked", "answered"}
             /\ res_pc = "answered" => answer = work_ans
       /\ (/\ res_pc = "answered"
           /\ label_str = "Are you legally authorized to work in Canada?"
           /\ cfg.WORK_AUTHORIZATION_ANSWER = "No")
          => answer = Some("No")

\* a label that matches the authorization patterns and the generic
\* "do you have ... experience with" pattern, the skill being in the CV,
\* was answered with the authorization answer
C9_Witness ==
    /\ res_pc = "answered"
    /\ label_str = "Do you have work authorization and experience with Java?"
    /\ environ = EnvFilled
    /\ cv_file # None /\ Contains(cv_file[1], "Java, Spring Boot")
    /\ answer = Some("No")

C11_CachedIdempotent ==
    \A i \in 2..Len(cv_calls) :
       /\ cv_calls[i].text = cv_calls[i - 1].text
       /\ ~cv_calls[i].read

\* C12 as stated: every label with a primary-skill token gets 4 years, every
\* other label with a mid-tier token gets 3, every other label that mentions
\* years or experience gets 2.
C12_Tiers ==
    LET q == Strip(label_str)
        text == _normalize(q)
        years == get_years_for_question(q)
    IN res_pc # "idle" =>
         /\ AnyIn(TECH_4_YEARS, text) => years = Some(4)
         /\ (~AnyIn(TECH_4_YEARS, text) /\ AnyIn(TECH_3_YEARS, text)) => years = Some(3)
         /\ (/\ ~AnyIn(TECH_4_YEARS, text) /\ ~AnyIn(TECH_3_YEARS, text)
             /\ AnyIn({"year", "experience"}, text)) => years = Some(2)

\* C12, amended: the tiers apply to labels that mention years or experience
\* (year, années, experience, expérience) and have no "total" phrasing: a
\* primary-skill token gives 4, otherwise a mid-tier token gives 3, otherwise
\* "year" or "experience" gives 2; "total" with year/experience gives 3
\* whatever technology is named; a label that mentions neither years nor
\* experience gets no answer from the table.
C12_TiersGated ==
    LET q == Strip(label_str)
        text == _normalize(q)
        years == get_years_for_question(q)
        mentions == AnyIn({"year", "année", "expérience", "experience"}, text)
        total == Contains(text, "total") /\ AnyIn({"year", "experience"}, text)
        primary == AnyIn(TECH_4_YEARS, text)
        mid == AnyIn(TECH_3_YEARS, text)
    IN res_pc # "idle" =>
         /\ ~mentions => years = None
         /\ (mentions /\ total) => years = Some(3)
         /\ (mentions /\ ~total /\ primary) => years = Some(4)
         /\ (mentions /\ ~total /\ ~primary /\ mid) => years = Some(3)
         /\ (mentions /\ ~total /\ ~primary /\ ~mid /\ AnyIn({"year", "experience"}, text))
               => years = Some(2)

\* a label that names a primary and a mid-tier technology was answered from
\* the table with the top tier
C12_Witness ==
    /\ res_pc = "answered"
    /\ label_str = "How many years of experience do you have with Java and Spring Boot?"
    /\ get_years_for_question(label_str) = Some(4)
    /\ answer = Some("4")

\* C13: a label with "how many" and "years" is never a Yes/No experience
\* question, whatever Yes/No phrasing it also holds, and the resolver
\* passes the Yes/No rule without answering it: from that rule on it does
\* what the years table rule does.
C13_QuantityDominates ==
    LET q == Strip(label_str)
        text == _normalize(q)
        cfg == LoadConfig(environ)
    IN (res_pc # "idle" /\ Search(<<"how many", "years">>, text)) =>
         /\ ~is_yes_no_experience_question(q)
         /\ get_yes_no_for_experience(q) = None
         /\ FromYesNo(q, cfg.EASY_APPLY_YEARS_DEFAULT, cfg.CV_PATH, cv_file,
                      cfg.USE_GEMINI_FOR_CV, cfg)
              = FromYearsMap(q, cfg.EASY_APPLY_YEARS_DEFAULT, cfg.CV_PATH, cv_file,
                             cfg.USE_GEMINI_FOR_CV)

\* a quantity label with the Yes/No phrasing "experience with ...?" reached
\* the Yes/No rule (its rating keyword lets it pass the years rule), the
\* skill is in no CV, and the answer is the table's number, not "No"
C13_Witness ==
    /\ res_pc = "answered"
    /\ label_str = "How many years of experience with backend APIs?"
    /\ Search(<<"experience with ", "?">>, _normalize(label_str))
    /\ cv_file = None
    /\ answer = Some("2")

\* C14 as stated: the label of Scenario A resolves to "4" under every
\* configuration and every CV state.
C14_ScenarioA ==
    (res_pc = "answered" /\ label_str = "How many years of experience with Java?")
       => answer = Some("4")

\* C14, amended: the label of Scenario A resolves to "4" when the CV text or
\* the certification list mentions java, and to "0" when neither does; it
\* is a whole-number string in both cases.
C14_ScenarioAKnown ==
    LET cfg == LoadConfig(environ)
        cv_text == IF cfg.CV_PATH = "" \/ cv_file = None THEN "" ELSE cv_file[1]
        listed == \E part \in SplitOn(Lower(cfg.EASY_APPLY_CERTIFICATIONS), ",", "") :
                     Strip(part) # "" /\ (Contains(Strip(part), "java")
                                          \/ Contains("java", Strip(part)))
        known == Contains(Lower(cv_text), "java") \/ listed
    IN (res_pc = "answered" /\ label_str = "How many years of experience with Java?")
         => /\ known => answer = Some("4")
            /\ ~known => answer = Some("0")

\* Scenario A was resolved with a CV that mentions Java
C14_Witness ==
    /\ res_pc = "answered"
    /\ label_str = "How many years of experience with Java?"
    /\ cv_file = Some("Java developer")
    /\ LoadConfig(environ).CV_PATH # ""
    /\ answer = Some("4")

\* C15: after a fill pass every control that held a value before it (a typed
\* text, a real option selected, a checked option) holds the same value.
C15_NeverOverwrite ==
    LET Held(c) ==
            CASE c.kind = "input" -> Strip(c.value) # ""
              [] c.kind = "select" -> ~IsPlaceholderOption(c.value)
              [] OTHER -> c.selection # {}
    IN fill_pc = "done" =>
         \A i \in DOMAIN form_before :
            Held(form_before[i]) =>
               /\ form[i].value = form_before[i].value
               /\ form[i].selection = form_before[i].selection

\* C19: a required custom single-choice question with right-to-work phrasing
\* (Canada or the country, no sponsorship wording) and the options Yes and
\* No ends the fill pass with "No" selected.
C19_CustomOverride ==
    LET RightToWork(c) ==
            LET q_lower == Lower(c.question)
            IN /\ c.kind = "custom" /\ IsRequired(c)
               /\ Contains(q_lower, "right to work")
               /\ (Contains(q_lower, "canada") \/ Contains(q_lower, "country"))
               /\ ~Contains(q_lower, "sponsorship")
               /\ c.options = <<"Yes", "No">>
    IN fill_pc = "done" =>
         \A i \in DOMAIN form_before :
            (RightToWork(form_before[i]) /\ form_before[i].selection = {})
               => form[i].selection = {"No"}

\* C16: in a round select_job_at_index is called with the indices 0, 1, ...,
\* count-1 in this order, the first call right after the count was taken
\* and each further call with the next index of the same round; round_no is
\* incremented only at the start of the run, after a round that found no
\* job, or after the scroll that follows the call with the last index.
C16_ListOrder ==
    [][\A t \in Runs :
          /\ (Active(t) /\ Active(t)' /\ task'[t].selects # task[t].selects) =>
                /\ task'[t].selects = task[t].selects + 1
                /\ task'[t].pc = "select"
                /\ task'[t].i < task'[t].count
                /\ \/ /\ task[t].pc \in {"count", "rescroll"}
                      /\ task'[t].i = 0
                   \/ /\ task[t].pc \notin {"count", "rescroll"}
                      /\ task'[t].i = task[t].i + 1
                      /\ task'[t].count = task[t].count
                      /\ task'[t].round_no = task[t].round_no
          /\ (Active(t) /\ Active(t)' /\ task'[t].round_no # task[t].round_no) =>
                   /\ task'[t].round_no = task[t].round_no + 1
                   /\ \/ task[t].pc = "navigate"
                      \/ task[t].pc = "sleep15" /\ task[t].count = 0
                      \/ /\ task[t].pc = "scrollmore"
                         /\ task[t].i = task[t].count - 1]_vars

\* the second job of the second round is being selected
C16_Witness ==
    \E t \in Runs :
       /\ task[t].pc = "select"
       /\ task[t].round_no = 2
       /\ task[t].i = 1
       /\ task[t].selects >= 3

C18_AppliedOnlyOnSubmit ==
    \A t \in Runs :
       /\ task[t].applied => task[t].submitted
       /\ (Active(t) /\ applied_count > task[t].countAtSelect) => task[t].submitted

\* C20: the secondary provider (Groq) is called only if the primary
\* (Gemini) was not called at all (no key or no library) or failed with a
\* quota error: after any other error, or an empty completion, of the
\* primary there is no call of the secondary.
C20_SecondaryOnlyOnQuota ==
    opt_pc = "picked" =>
       \A i \in 1..Len(provider_calls) :
          provider_calls[i].provider = "groq" =>
             \A j \in 1..(i - 1) :
                provider_calls[j].provider = "gemini" =>
                   provider_calls[j].outcome = "quota"

\* C21: every years-of-experience label that asks "how many", that the
\* work-authorization override does not answer, and none of whose extracted
\* technology tokens is in the CV text or the credential list, is answered "0".
C21_SkillAbsence ==
    LET cfg == LoadConfig(environ)
        q == Strip(label_str)
        label_lower == Lower(q)
        cv_text == load_cv_text(cfg.CV_PATH, cv_file)
    IN (/\ res_pc = "answered"
        /\ Contains(label_lower, "how many")
        /\ Contains(label_lower, "years") /\ Contains(label_lower, "experience")
        /\ get_work_authorization_answer(q, cfg) = None
        /\ ~_skill_mentioned_in_cv(q, cv_text, cfg.EASY_APPLY_CERTIFICATIONS))
       => answer = Some("0")

\* C22: a label with sponsorship-required phrasing is answered with the
\* configured "needs sponsorship" value, and a label with
\* authorization/citizenship phrasing is answered with the configured "not
\* authorized" value, also when the label holds both kinds of phrasing.
C22_PolicyValues ==
    LET cfg == LoadConfig(environ)
        text == _normalize(Strip(label_str))
    IN res_pc = "answered" =>
         /\ (\E pat \in SPONSORSHIP_QUESTION_PATTERNS : Search(pat, text))
               => answer = Some(cfg.WORK_NEED_SPONSORSHIP_ANSWER)
         /\ (\E pat \in WORK_AUTH_PATTERNS : Search(pat, text))
               => answer = Some(cfg.WORK_AUTHORIZATION_ANSWER)

\* C23: after a fill pass every required group of native radios that had no
\* option selected before the pass has exactly one option selected, whatever
\* answer the loop got for its question.
C23_RadioAnswered ==
    fill_pc = "done" =>
       \A i \in DOMAIN form_before :
          (/\ form_before[i].kind = "radio"
           /\ IsRequired(form_before[i])
           /\ form_before[i].selection = {})
          => Cardinality(form[i].selection) = 1

\* C24: a required text input or textarea with a maximum length m >= 1 for
\* whose label no answer was resolved holds, after the pass, the fallback
\* text "none" repeated and cut to exactly m characters.
C24_FallbackLength ==
    fill_pc = "done" =>
       \A i \in DOMAIN form_before :
          LET c == form_before[i]
          IN (/\ c.kind = "input" /\ c.type \in {"text", "textarea"}
              /\ IsRequired(c) /\ Strip(c.value) = ""
              /\ c.maxlength >= 1 /\ c.resolved = None)
             => /\ Len(form[i].value) = c.maxlength
                /\ form[i].value = Truncate(RepeatText("none ", c.maxlength), c.maxlength)

\* the wizard of run t is between its call and its return
InWizard(t) ==
    task[t].pc \in {"wizModal", "wizSubmit0", "wizNext0", "wizFill",
                    "wizClose", "wizAdvance"}

\* C25: the step loops are bounded and terminate: whatever the site shows,
\* the wizard makes at most 12 fill passes and at most 13 advance clicks for
\* one application and then returns, and the initial-form mode makes at most
\* 15 steps and then returns.
C25_StepLoopsBounded ==
    /\ [](\A t \in Runs : task[t].passes <= 12 /\ task[t].clicks <= 13)
    /\ [](easy_form.steps <= 15)
    /\ <>(~InWizard(1))
    /\ <>(easy_form.pc = "returned")

\* both loops ran to exhaustion: 12 passes and 13 clicks, 15 steps
C25_Witness ==
    /\ task[1].passes = 12 /\ task[1].clicks = 13 /\ task[1].pc = "limit3"
    /\ easy_form.steps = 15 /\ easy_form.pc = "returned"

\* C26: a required dropdown with no real option selected and at least one
\* real option is answered from its real options: once the loop has settled
\* on its answer, the answer is one of the collected option texts, and no
\* placeholder, whatever the resolver and the providers returned.
C26_AnswerFromOptions ==
    opt_pc \in {"matched", "picked"} =>
        /\ select_answer # None
        /\ \E k \in 1..Len(option_texts) : select_answer[1] = option_texts[k]
        /\ ~IsPlaceholderOption(select_answer[1])

\* the resolver's answer was in no option and the providers' pick decided
C26_Witness ==
    /\ opt_pc = "picked" /\ dom_options = <<"Choose", "b ">>
    /\ select_answer = Some("b") /\ provider_calls # <<>>

\* C27: the running flag tracks the run: in every reachable state status()
\* reports running = true while a run task has been started and has not
\* finished, and running = false while none is unfinished.
C27_RunningTracksRun ==
    StatusResponse.running = (\E t \in Runs : Active(t))

\* main.py:62-76, 105-114: run t is between two job attempts
BetweenJobs(t) == task[t].pc \in {"count", "select", "waitClosed", "scrollmore"}

\* the first step of main() of run t is taken (main.py:38-41)
RunStarts(t) == task[t].pc = "created" /\ task'[t].pc = "context"

\* C28: applied_count counts the applications of the current run: it is 0
\* when the run starts, it changes during a run only by growing by exactly 1
\* in the step that follows a wizard attempt which reported success, and
\* wherever the run loop is between two jobs it equals the number of wizard
\* attempts of the run that reported success.
C28_AppliedCount ==
    /\ [][\A t \in Runs : RunStarts(t) => applied_count' = 0]_vars
    /\ [][applied_count' # applied_count =>
            \/ applied_count' = 0 /\ nTasks' = nTasks + 1
            \/ /\ applied_count' = applied_count + 1
               /\ \E t \in Runs : /\ task[t].pc = "limit3" /\ task[t].applied
                                  /\ task'[t].pc = "waitClosed"]_vars
    /\ [](\A t \in Runs : BetweenJobs(t) => applied_count = task[t].successes)

\* the second run, between two jobs, has counted its own single application
C28_Witness ==
    /\ task[2].pc = "select" /\ task[2].i = 1 /\ task[2].successes = 1
    /\ applied_count = 1

\* C29: one templated completion request calls the primary provider (Gemini)
\* at most once and the secondary provider (Groq) at most once, whatever
\* keys are set and however each call ends.
C29_OneCallEach ==
    opt_pc = "picked" =>
       /\ Cardinality({i \in 1..Len(provider_calls) :
                          provider_calls[i].provider = "gemini"}) <= 1
       /\ Cardinality({i \in 1..Len(provider_calls) :
                          provider_calls[i].provider = "groq"}) <= 1

\* the markup of the control carries no sign of being required: neither the
\* attribute nor a "*" in its text
NotRequired(c) == ~c.marked /\ ~Contains(c.question, "*")

====
